---- MODULE Spec2Model ----
(***************************************************************************)
(* vue-app-sdk: navigation direction, per-navigation payload and details   *)
(* store, modelled on top of an abstract host router (vue-router).         *)
(*                                                                         *)
(*   SpecEnhance : enhanceRouter   (src/src/sdk/hooks.ts)                  *)
(*   SpecRouter  : Router plugin   (src/src/core/Plugin.ts)                *)
(***************************************************************************)
EXTENDS Integers, Sequences, FiniteSets, TLC

\* ------------------------------------------------------------------------
\* Bounds of the model
\* ------------------------------------------------------------------------
\* router method calls in one run
MaxCalls == 2
\* largest |delta| passed to router.go
MaxDelta == 1

\* ------------------------------------------------------------------------
\* Values
\* ------------------------------------------------------------------------
Undef == "undefined"
\* START_LOCATION of the host router
Start == "START"
Routes == {"/list", "/detail?id=1", "/detail?id=2"}
Data == {"x", "y"}
\* the data argument of the *WithData methods
Payloads == Data
Deltas == {d \in (0 - MaxDelta)..MaxDelta : d # 0}
\* route.path of a route given by its fullPath
PathOf(r) ==
  CASE r = Start -> "/"
    [] r = "/list" -> "/list"
    [] OTHER -> "/detail"
\* what a user identifyDirection may resolve to
Returns == {"forward", "backward", "unchanged", Undef}
NoFailure == Undef
Failures == {"aborted", "cancelled", "duplicated"}
isNavigationFailure(failure) == failure \in Failures

\* map helpers (Map / plain object keyed by route)
EmptyMap == [k \in {} |-> Undef]
MapSet(m, k, v) == [p \in (DOMAIN m) \cup {k} |-> IF p = k THEN v ELSE m[p]]
MapDelete(m, k) == [p \in (DOMAIN m) \ {k} |-> m[p]]

VARIABLES
  \* ---- host router ----
  route,        \* router.currentRoute (fullPath)
  hist,         \* browser history entries of the app
  pos,          \* index of the current history entry (0: none yet)
  navs,         \* every navigation requested so far, by id
  calls,        \* router methods called so far
  \* ---- enhanceRouter closure state ----
  hasIdentify,  \* options.identifyDirection is configured
  isBack,
  details,      \* single-slot payload buffer
  detailsOwner, \* id of the call that stashed the payload (0: initial / no navigation)
  detailsCache,
  locked,
  endHooks,     \* per-navigation afterEach hooks registered by the direction guard
  events,       \* hook dispatches, in order
  \* ---- Router plugin fields ----
  hasState,        \* history.state carries a position (web history)
  latestPosition,
  _detailsData,
  _detailsRecord,
  ready,           \* the router.isReady() callback of install has run
  trace,           \* hook dispatches and cursor updates, in order
  \* ---- Tabs plugin ----
  tabs,            \* the Tabs instance, its router and its pending async calls
  \* ---- KeepAlive plugin ----
  keepAlive,       \* the KeepAlive instance, its clock and its pending hook handlers
  \* ---- RouterScroller plugin ----
  scroller,        \* the RouterScroller instance, the page's elements and the browser history
  \* ---- AppSDK ----
  sdk,             \* the AppSDK instance and the plugins handed to it
  \* ---- route identities ----
  ids,             \* two route-identity objects and the ids they resolve to
  \* ---- Auth plugin ----
  auth,            \* the Auth / FeatureAuth instance and the elements its directive was mounted on
  \* ---- persisted details map of enhanceRouter ----
  hydration,       \* the storage, the persistent ref and the serializer's oldMap
  \* ---- createTabs ----
  routeLock,       \* the createTabs instance with its route lock and its pending calls
  \* ---- lazy route components ----
  loader,          \* the route records, their lazy components and the name cache
  \* ---- router.beforeOnce ----
  onceGuards       \* the guards registered through beforeOnce, the lock and the navigations

hostVars == <<route, hist, pos, navs, calls>>
enhanceVars == <<isBack, details, detailsOwner, detailsCache, locked, endHooks, events>>
pluginVars == <<hasState, latestPosition, _detailsData, _detailsRecord, ready, trace>>
moreVars == <<auth, hydration, routeLock, loader, onceGuards>>
sdkVars == <<keepAlive, scroller, sdk, ids, moreVars>>
vars == <<hostVars, hasIdentify, enhanceVars, pluginVars, tabs, sdkVars>>

\* ------------------------------------------------------------------------
\* Host router (vue-router), as far as the SDK observes it
\* ------------------------------------------------------------------------
Settled(n) == navs[n].stage \in {"committed", "failed"}
\* a later navigation replaced router.pendingLocation
Superseded(n) == \E m \in (n + 1)..Len(navs) : ~navs[m].dup
CanCall == calls < MaxCalls
\* history.go(delta) moves only when the entry exists
CanGo(delta) == pos + delta >= 1 /\ pos + delta <= Len(hist)

\* A navigation of the host, from `from` to `to`, with what the properties
\* need to know about it: the call that started it, the navigations in flight
\* and the number of after-navigation callbacks run when it started, how the
\* subscribers its guard awaited settled, whether its guard called next().
NavRecord(kind, to, from, delta, payload, store, call, overtook, seen) ==
  [kind |-> kind, to |-> to, from |-> from, delta |-> delta,
   payload |-> payload,
   dup |-> (kind # "pop" /\ to = from),
   stage |-> "pending", failure |-> NoFailure, skipped |-> FALSE,
   dflt |-> Undef, custom |-> Undef, direction |-> Undef,
   delivered |-> "none", deliveredBy |-> 0, bufferAfter |-> "none",
   before |-> store, kept |-> TRUE, disturbed |-> FALSE,
   call |-> call,
   overtook |-> overtook,
   subs |-> <<>>, next |-> FALSE, redirectedFrom |-> 0,
   seen |-> seen]

NewNav(kind, to, delta, payload, store) ==
  NavRecord(kind, to, route, delta, payload, store, calls + 1,
            {i \in 1..Len(navs) : ~Settled(i)},
            Cardinality({i \in 1..Len(events) : events[i].name = "afterEach"}))

\* the unsettled navigations saw another call touch the router meanwhile
Disturb(ns) ==
  [i \in DOMAIN ns |->
     IF ns[i].stage \in {"committed", "failed"} THEN ns[i]
     ELSE [ns[i] EXCEPT !.disturbed = TRUE]]
\* router.push / router.replace / history.go of the host: a navigation starts
Request(kind, to, delta, payload, store) ==
  Append(Disturb(navs), NewNav(kind, to, delta, payload, store))

\* finalizeNavigation: the history after navigation n committed
HistAfter(n) ==
  LET nav == navs[n] IN
  CASE nav.kind = "push" -> Append(SubSeq(hist, 1, pos), nav.to)
    [] nav.kind = "replace" ->
         IF pos = 0 THEN <<nav.to>> ELSE [hist EXCEPT ![pos] = nav.to]
    [] OTHER -> hist
PosAfter(n) ==
  LET nav == navs[n] IN
  CASE nav.kind = "push" -> pos + 1
    [] nav.kind = "replace" -> IF pos = 0 THEN 1 ELSE pos
    [] OTHER -> pos + nav.delta

\* the outcomes the host may report for navigation n
CanCommit(n) ==
  /\ navs[n].stage = "guarded"
  /\ ~navs[n].dup
  /\ ~Superseded(n)
CanFail(n, f) ==
  /\ navs[n].stage \in {"pending", "guarded"}
  /\ (f = "duplicated") <=> navs[n].dup
  /\ (f = "cancelled") => Superseded(n)

\* the state of the pipeline a specification does not run
\* null / undefined where a history position is expected (positions are >= 0)
Null == 0 - 1
EnhanceUnused ==
  /\ isBack = FALSE
  /\ details = [data |-> Undef]
  /\ detailsOwner = 0
  /\ detailsCache = EmptyMap
  /\ locked = FALSE
  /\ endHooks = <<>>
  /\ events = <<>>
PluginUnused ==
  /\ hasState = TRUE
  /\ latestPosition = Null
  /\ _detailsData = Undef
  /\ _detailsRecord = EmptyMap
  /\ ready = FALSE
  /\ trace = <<>>
\* a Tabs instance: its persistent state { pages, active }, its configured mode,
\* the router it is installed on (current route, navigations), the one-shot
\* 'sdk:router:navigate' hooks it has registered, its suspended async calls and
\* the number of calls made on it; the constructor leaves pages [] and active ''
NewTabs(pages, active, current, mode) ==
  [pages |-> pages, active |-> active, route |-> current, mode |-> mode,
   hooks |-> <<>>, navs |-> <<>>, tasks |-> <<>>, ops |-> 0]
TabsUnused == tabs = NewTabs(<<>>, "", Start, "normal")

\* no KeepAlive or RouterScroller plugin is registered, the AppSDK is not
\* exercised and no route identity is resolved
NoPlugin == [installed |-> FALSE, jobs |-> <<>>]
NoIds == [resolved |-> FALSE]
MoreUnused == auth = NoPlugin /\ hydration = NoPlugin /\ routeLock = NoPlugin /\ loader = NoPlugin /\ onceGuards = NoPlugin
SdkUnused == keepAlive = NoPlugin /\ scroller = NoPlugin /\ sdk = NoPlugin /\ ids = NoIds /\ MoreUnused

\* ------------------------------------------------------------------------
\* enhanceRouter (src/src/sdk/hooks.ts)
\* ------------------------------------------------------------------------
createDetails(d) == [data |-> d.data]

\* a first-write-wins buffer: a stashed payload is not overwritten
updateDetailsKeepFirst(data, owner) ==
  IF details.data # Undef
    THEN UNCHANGED <<details, detailsOwner>>
    ELSE /\ details' = createDetails([data |-> data])
         /\ detailsOwner' = owner

\* lines 206-208
updateDetailsByData(data, owner) ==
  /\ details' = createDetails([data |-> data])
  /\ detailsOwner' = owner

\* any resolved value overrides the default
ResolveDirectionAny(dflt, custom) ==
  IF custom # Undef THEN custom ELSE dflt

\* line 158: only 'backward' and 'forward' override the default
ResolveDirection(dflt, custom) ==
  IF custom # Undef /\ custom \in {"backward", "forward"} THEN custom ELSE dflt

\* An event: its hook name, the navigation it reports (to/from), the navigation
\* whose guard run produced it (0: none), its direction or data argument and
\* its failure argument.
\* lines 160-161: the start events of the navigation the guard runs for
StartEvents(n, direction) ==
  << [name |-> "sdk:router:direction", nav |-> n, by |-> n, arg |-> direction, failure |-> NoFailure],
     [name |-> "sdk:router:" \o direction, nav |-> n, by |-> n, arg |-> direction, failure |-> NoFailure] >>

\* the end events without the failure argument
EndEventsNoFailure(n, hook, failure) ==
  << [name |-> "sdk:router:direction:end", nav |-> n, by |-> hook.by,
      arg |-> hook.direction, failure |-> NoFailure],
     [name |-> "sdk:router:" \o hook.direction \o ":end", nav |-> n, by |-> hook.by,
      arg |-> hook.direction, failure |-> NoFailure] >>

\* lines 165-166: what one per-navigation afterEach hook dispatches
EndEvents(n, hook, failure) ==
  << [name |-> "sdk:router:direction:end", nav |-> n, by |-> hook.by,
      arg |-> hook.direction, failure |-> failure],
     [name |-> "sdk:router:" \o hook.direction \o ":end", nav |-> n, by |-> hook.by,
      arg |-> hook.direction, failure |-> failure] >>

\* lines 144-147: the beforeOnce wrapper invoked the guard for navigation n
GuardEvent(n) ==
  [name |-> "beforeOnce", nav |-> n, by |-> n, arg |-> Undef, failure |-> NoFailure]

\* lines 177-178: the after-navigation callback ran for navigation n
AfterEachEvent(n, failure) ==
  [name |-> "afterEach", nav |-> n, by |-> 0, arg |-> Undef, failure |-> failure]

\* line 182
DetailsEvent(n, d) ==
  [name |-> "sdk:router:details", nav |-> n, by |-> detailsOwner, arg |-> d.data, failure |-> NoFailure]

\* every registered per-navigation hook runs once, in registration order
AllEndEvents(n, failure) ==
  [i \in 1..(2 * Len(endHooks)) |->
     EndEvents(n, endHooks[(i + 1) \div 2], failure)[2 - (i % 2)]]

\* lines 172-175: the built-in subscriber of sdk:router:direction:end
EndSubscriber(cache, direction, from) ==
  IF direction = "backward" THEN MapDelete(cache, PathOf(from)) ELSE cache

RECURSIVE RunEndSubscriber(_, _, _)
RunEndSubscriber(cache, hooks, from) ==
  IF hooks = <<>> THEN cache
  ELSE RunEndSubscriber(EndSubscriber(cache, Head(hooks).direction, from), Tail(hooks), from)

\* lines 177-184 then 163-167: the afterEach hooks, in registration order
ER_afterEach(n, failure) ==
  LET nav == navs[n]
      ok == ~isNavigationFailure(failure)
      cache1 == IF ok THEN MapSet(detailsCache, PathOf(nav.to), createDetails(details))
                ELSE detailsCache
      ev1 == IF ok THEN <<DetailsEvent(n, createDetails(details))>> ELSE <<>>
      cache2 == RunEndSubscriber(cache1, endHooks, nav.from)
  IN /\ locked' = FALSE
     /\ detailsCache' = cache2
     /\ events' = events \o <<AfterEachEvent(n, failure)>> \o ev1 \o AllEndEvents(n, failure)
     /\ endHooks' = <<>>
     /\ navs' = [navs EXCEPT ![n] =
            [@ EXCEPT !.stage = IF ok THEN "committed" ELSE "failed",
                      !.failure = failure,
                      !.delivered = IF ok THEN details.data ELSE "none",
                      !.deliveredBy = IF ok THEN detailsOwner ELSE 0,
                      !.bufferAfter = details.data,
                      !.kept = (cache2 = nav.before)]]
     /\ UNCHANGED <<hasIdentify, isBack, details, detailsOwner, pluginVars, tabs, sdkVars>>

\* lines 143-157: beforeOnce wrapper and the guard up to its first await
ER_guardEnter(n) ==
  /\ navs[n].stage = "pending"
  /\ ~navs[n].dup
  /\ IF locked
       THEN /\ navs' = [navs EXCEPT ![n] = [@ EXCEPT !.stage = "guarded", !.skipped = TRUE]]
            /\ UNCHANGED <<isBack, locked>>
       ELSE /\ locked' = TRUE
            /\ navs' = [navs EXCEPT ![n] =
                   [@ EXCEPT !.stage = "entered",
                             !.dflt = IF isBack THEN "backward" ELSE "forward"]]
            /\ isBack' = FALSE
  /\ events' = (IF locked THEN events ELSE Append(events, GuardEvent(n)))
  /\ UNCHANGED <<route, hist, pos, calls, hasIdentify, details, detailsOwner, detailsCache, endHooks, pluginVars, tabs, sdkVars>>

\* lines 157-169: identifyDirection resolved, start events, afterEach hook,
\* next(); the subscribers of the start events resolve without suspending
ER_guardNext(n, ret) ==
  /\ navs[n].stage = "entered"
  /\ LET custom == IF hasIdentify THEN ret ELSE Undef
         direction == ResolveDirection(navs[n].dflt, custom)
     IN /\ navs' = [navs EXCEPT ![n] =
               [@ EXCEPT !.stage = "guarded", !.custom = custom, !.direction = direction,
                         !.subs = <<"resolved", "resolved">>, !.next = TRUE]]
        /\ events' = events \o StartEvents(n, direction)
        /\ endHooks' = Append(endHooks, [by |-> n, direction |-> direction])
  /\ UNCHANGED <<route, hist, pos, calls, hasIdentify, isBack, details, detailsOwner, detailsCache, locked, pluginVars, tabs, sdkVars>>

\* the host commits navigation n and triggers afterEach(to, from, undefined)
ER_commit(n) ==
  /\ CanCommit(n)
  /\ route' = navs[n].to
  /\ hist' = HistAfter(n)
  /\ pos' = PosAfter(n)
  /\ ER_afterEach(n, NoFailure)
  /\ UNCHANGED calls

\* the host reports a failure and triggers afterEach(to, from, failure)
ER_fail(n, f) ==
  /\ CanFail(n, f)
  /\ ER_afterEach(n, f)
  /\ UNCHANGED <<route, hist, pos, calls>>

\* ---- the router methods enhanceRouter overrides or adds (lines 186-233) ----
Called == CanCall /\ calls' = calls + 1

\* the host's router.push: a navigation starts
ER_hostPush(to, payload) ==
  navs' = Request("push", to, 0, payload, detailsCache)

\* lines 200-204: the overridden replace drops the current route's entry first
ER_routerReplace(to, payload) ==
  /\ detailsCache' = MapDelete(detailsCache, PathOf(route))
  /\ navs' = Request("replace", to, 0, payload, detailsCache)

\* the host's history.go: a navigation starts only when the entry exists
ER_hostGo(delta, payload) ==
  IF CanGo(delta)
    THEN navs' = Request("pop", hist[pos + delta], delta, payload, detailsCache)
    ELSE UNCHANGED navs

\* lines 193-196: the overridden go
ER_routerGo(delta, payload) ==
  /\ isBack' = (IF delta < 0 THEN TRUE ELSE isBack)
  /\ ER_hostGo(delta, payload)

\* the id of the navigation a call is about to start (0 when it starts none)
NextNav(starts) == IF starts THEN Len(navs) + 1 ELSE 0

ER_push(to) ==
  /\ Called
  /\ ER_hostPush(to, Undef)
  /\ UNCHANGED <<route, hist, pos, hasIdentify, enhanceVars, pluginVars, tabs, sdkVars>>

ER_replace(to) ==
  /\ Called
  /\ ER_routerReplace(to, Undef)
  /\ UNCHANGED <<route, hist, pos, hasIdentify, isBack, details, detailsOwner, locked, endHooks, events, pluginVars, tabs, sdkVars>>

\* lines 189-192
ER_back ==
  /\ Called
  /\ isBack' = TRUE
  /\ ER_hostGo(-1, Undef)
  /\ UNCHANGED <<route, hist, pos, hasIdentify, details, detailsOwner, detailsCache, locked, endHooks, events, pluginVars, tabs, sdkVars>>

\* router.forward is not overridden: the host's go(1)
ER_forward ==
  /\ Called
  /\ ER_hostGo(1, Undef)
  /\ UNCHANGED <<route, hist, pos, hasIdentify, enhanceVars, pluginVars, tabs, sdkVars>>

ER_go(delta) ==
  /\ Called
  /\ ER_routerGo(delta, Undef)
  /\ UNCHANGED <<route, hist, pos, hasIdentify, details, detailsOwner, detailsCache, locked, endHooks, events, pluginVars, tabs, sdkVars>>

ER_pushWithData(to, data) ==
  /\ Called
  /\ updateDetailsByData(data, NextNav(TRUE))
  /\ ER_hostPush(to, data)
  /\ UNCHANGED <<route, hist, pos, hasIdentify, isBack, detailsCache, locked, endHooks, events, pluginVars, tabs, sdkVars>>

ER_replaceWithData(to, data) ==
  /\ Called
  /\ updateDetailsByData(data, NextNav(TRUE))
  /\ ER_routerReplace(to, data)
  /\ UNCHANGED <<route, hist, pos, hasIdentify, isBack, locked, endHooks, events, pluginVars, tabs, sdkVars>>

ER_goWithData(delta, data) ==
  /\ Called
  /\ updateDetailsByData(data, NextNav(CanGo(delta)))
  /\ ER_routerGo(delta, data)
  /\ UNCHANGED <<route, hist, pos, hasIdentify, detailsCache, locked, endHooks, events, pluginVars, tabs, sdkVars>>

ER_forwardWithData(data) ==
  /\ Called
  /\ updateDetailsByData(data, NextNav(CanGo(1)))
  /\ ER_routerGo(1, data)
  /\ UNCHANGED <<route, hist, pos, hasIdentify, detailsCache, locked, endHooks, events, pluginVars, tabs, sdkVars>>

ER_backWithData(data) ==
  /\ Called
  /\ updateDetailsByData(data, NextNav(CanGo(-1)))
  /\ ER_routerGo(-1, data)
  /\ UNCHANGED <<route, hist, pos, hasIdentify, detailsCache, locked, endHooks, events, pluginVars, tabs, sdkVars>>

\* lines 231-233
ER_clearDetails ==
  /\ Called
  /\ detailsCache' = EmptyMap
  /\ navs' = Disturb(navs)
  /\ UNCHANGED <<route, hist, pos, hasIdentify, isBack, details, detailsOwner, locked, endHooks, events, pluginVars, tabs, sdkVars>>

\* The sessions a run starts from: a fresh application at START_LOCATION, or one
\* that went START -> /list -> /detail?id=1 by two plain pushes (the navigations
\* of that past are not kept in navs).
Sessions == {"fresh", "browsed"}
InitHost(session) ==
  /\ route = (IF session = "fresh" THEN Start ELSE "/detail?id=1")
  /\ hist = (IF session = "fresh" THEN <<>> ELSE <<"/list", "/detail?id=1">>)
  /\ pos = (IF session = "fresh" THEN 0 ELSE 2)
  /\ navs = <<>>
  /\ calls = 0

InitEnhance ==
  \E session \in Sessions :
  /\ InitHost(session)
  /\ hasIdentify \in BOOLEAN
  /\ isBack = FALSE
  /\ details = createDetails([data |-> Undef])
  /\ detailsOwner = 0
  /\ detailsCache =
       (IF session = "fresh" THEN EmptyMap
        ELSE MapSet(MapSet(EmptyMap, "/list", createDetails(details)),
                    "/detail", createDetails(details)))
  /\ locked = FALSE
  /\ endHooks = <<>>
  /\ events = <<>>
  /\ PluginUnused
  /\ TabsUnused
  /\ SdkUnused

NextEnhance ==
  \/ \E to \in Routes : ER_push(to)
  \/ \E to \in Routes : ER_replace(to)
  \/ ER_back
  \/ ER_forward
  \/ \E delta \in Deltas : ER_go(delta)
  \/ \E to \in Routes, data \in Payloads : ER_pushWithData(to, data)
  \/ \E to \in Routes, data \in Payloads : ER_replaceWithData(to, data)
  \/ \E delta \in Deltas, data \in Payloads : ER_goWithData(delta, data)
  \/ \E data \in Payloads : ER_forwardWithData(data)
  \/ \E data \in Payloads : ER_backWithData(data)
  \/ ER_clearDetails
  \/ \E n \in 1..Len(navs) : ER_guardEnter(n)
  \/ \E n \in 1..Len(navs), ret \in (IF hasIdentify THEN Returns ELSE {Undef}) : ER_guardNext(n, ret)
  \/ \E n \in 1..Len(navs) : ER_commit(n)
  \/ \E n \in 1..Len(navs), f \in Failures : ER_fail(n, f)

SpecEnhance == InitEnhance /\ [][NextEnhance]_vars

\* ------------------------------------------------------------------------
\* The direction guard and beforeOnce, step by step (src/src/sdk/hooks.ts
\* lines 142-184): the guard suspends at each await, its subscribers may
\* resolve to any value or throw, and other guards of the chain may redirect.
\* ------------------------------------------------------------------------
\* lines 157-160: identifyDirection resolved, sdk:router:direction dispatched;
\* the guard awaits its subscribers
ER_guardIdentify(n, ret) ==
  /\ navs[n].stage = "entered"
  /\ LET custom == IF hasIdentify THEN ret ELSE Undef
         direction == ResolveDirection(navs[n].dflt, custom)
     IN /\ navs' = [navs EXCEPT ![n] =
               [@ EXCEPT !.stage = "await1", !.custom = custom, !.direction = direction]]
        /\ events' = Append(events, StartEvents(n, direction)[1])
  /\ UNCHANGED <<route, hist, pos, calls, hasIdentify, isBack, details, detailsOwner, detailsCache, locked, endHooks, pluginVars, tabs, sdkVars>>

\* how the subscribers of an awaited callHookParallel may settle: all resolve,
\* one resolves to false, or one throws (its promise rejects)
SubOutcomes == {"resolved", "false", "throws"}

\* an await inside a try/catch that swallows the rejection
AwaitSwallows(out) == TRUE

\* lines 160-161: `await hooks.callHookParallel(...)` resumes the guard when
\* every subscriber resolved, whatever the values; a rejection leaves the guard
AwaitResumes(out) == out # "throws"

\* lines 160-169: the awaited subscribers settled; the guard dispatches
\* sdk:router:<direction> and awaits again, or registers its afterEach hook
\* and calls next(); a rejection rejects the guard: the host reports an error
\* and runs no after-navigation callback
ER_guardResume(n, out) ==
  /\ navs[n].stage \in {"await1", "await2"}
  /\ LET nav == [navs[n] EXCEPT !.subs = Append(@, out)]
     IN IF ~AwaitResumes(out)
          THEN /\ navs' = [navs EXCEPT ![n] = [nav EXCEPT !.stage = "errored"]]
               /\ UNCHANGED <<events, endHooks>>
          ELSE IF navs[n].stage = "await1"
            THEN /\ navs' = [navs EXCEPT ![n] = [nav EXCEPT !.stage = "await2"]]
                 /\ events' = Append(events, StartEvents(n, nav.direction)[2])
                 /\ UNCHANGED endHooks
            ELSE /\ navs' = [navs EXCEPT ![n] = [nav EXCEPT !.stage = "guarded", !.next = TRUE]]
                 /\ endHooks' = Append(endHooks, [by |-> n, direction |-> nav.direction])
                 /\ UNCHANGED events
  /\ UNCHANGED <<route, hist, pos, calls, hasIdentify, isBack, details, detailsOwner, detailsCache, locked, pluginVars, tabs, sdkVars>>

\* where a guard of the application redirects to
RedirectTargets == {"/list"}

\* another guard of the chain redirects navigation n (next(to)): the host
\* starts the navigation to the new target without running an after-navigation
\* callback for n; the redirect counts as a router call
ER_redirect(n, to) ==
  /\ Called
  /\ navs[n].stage \in {"pending", "guarded"}
  /\ navs[n].kind \in {"push", "replace"}
  /\ ~navs[n].dup
  /\ to # navs[n].to
  /\ navs' = Append([Disturb(navs) EXCEPT ![n] = [@ EXCEPT !.stage = "redirected"]],
                    [NewNav(navs[n].kind, to, 0, Undef, detailsCache)
                       EXCEPT !.redirectedFrom = n])
  /\ UNCHANGED <<route, hist, pos, hasIdentify, enhanceVars, pluginVars, tabs, sdkVars>>

\* The sessions of Sessions, and the browsed one caught while its
\* router.push('/list') is in flight (started, no guard run yet).
InitSession(session) ==
  /\ route = (IF session = "fresh" THEN Start ELSE "/detail?id=1")
  /\ hist = (IF session = "fresh" THEN <<>> ELSE <<"/list", "/detail?id=1">>)
  /\ pos = (IF session = "fresh" THEN 0 ELSE 2)
  /\ calls = 0
  /\ hasIdentify = FALSE
  /\ isBack = FALSE
  /\ details = createDetails([data |-> Undef])
  /\ detailsOwner = 0
  /\ detailsCache =
       (IF session = "fresh" THEN EmptyMap
        ELSE MapSet(MapSet(EmptyMap, "/list", createDetails(details)),
                    "/detail", createDetails(details)))
  /\ navs = (IF session = "navigating"
               THEN <<NavRecord("push", "/list", route, 0, Undef, detailsCache, 0, {}, 0)>>
               ELSE <<>>)
  /\ locked = FALSE
  /\ endHooks = <<>>
  /\ events = <<>>
  /\ PluginUnused
  /\ TabsUnused
  /\ SdkUnused

InitGuard == \E session \in Sessions : InitSession(session)

NextGuard ==
  \/ \E to \in Routes : ER_push(to)
  \/ ER_back
  \/ \E n \in 1..Len(navs) : ER_guardEnter(n)
  \/ \E n \in 1..Len(navs) : ER_guardIdentify(n, Undef)
  \/ \E n \in 1..Len(navs), out \in SubOutcomes : ER_guardResume(n, out)
  \/ \E n \in 1..Len(navs), to \in RedirectTargets : ER_redirect(n, to)
  \/ \E n \in 1..Len(navs) : ER_commit(n)
  \/ \E n \in 1..Len(navs), f \in Failures : ER_fail(n, f)

SpecGuard == InitGuard /\ [][NextGuard]_vars

\* beforeOnce across overlapping navigations: the guard as one step, pushes
\* and redirects, from a session with a navigation in flight
OnceSessions == {"browsed", "navigating"}
InitOnce == \E session \in OnceSessions : InitSession(session)

NextOnce ==
  \/ \E to \in Routes : ER_push(to)
  \/ \E n \in 1..Len(navs) : ER_guardEnter(n)
  \/ \E n \in 1..Len(navs) : ER_guardNext(n, Undef)
  \/ \E n \in 1..Len(navs), to \in RedirectTargets : ER_redirect(n, to)
  \/ \E n \in 1..Len(navs) : ER_commit(n)
  \/ \E n \in 1..Len(navs), f \in Failures : ER_fail(n, f)

SpecOnce == InitOnce /\ [][NextOnce]_vars

\* payload calls made while an earlier plain navigation is still in flight
InitStash == InitSession("navigating")

NextStash ==
  \/ \E to \in Routes, data \in Payloads : ER_pushWithData(to, data)
  \/ \E n \in 1..Len(navs) : ER_guardEnter(n)
  \/ \E n \in 1..Len(navs) : ER_guardNext(n, Undef)
  \/ \E n \in 1..Len(navs) : ER_commit(n)
  \/ \E n \in 1..Len(navs), f \in Failures : ER_fail(n, f)

SpecStash == InitStash /\ [][NextStash]_vars

\* ------------------------------------------------------------------------
\* Router plugin (src/src/core/Plugin.ts)
\* ------------------------------------------------------------------------
\* the Symbol the payload buffer holds when no payload is stashed (line 226)
DEFAULT_DETAILS_DATA == "Symbol(details data)"
Directions == {"forward", "backward", "unchanged"}

\* classifies current < latest as forward
defaultIdentifyDirectionSwapped(latest, current) ==
  IF latest = Null \/ current = Null THEN "forward"
  ELSE IF current > latest THEN "backward"
  ELSE IF current = latest THEN "unchanged"
  ELSE "forward"

\* lines 231-245
defaultIdentifyDirection(latest, current) ==
  IF latest = Null \/ current = Null THEN "forward"
  ELSE IF current < latest THEN "backward"
  ELSE IF current = latest THEN "unchanged"
  ELSE "forward"

\* lines 375-377: history.state?.position, p being the position of the history
getCurrentPosition(p) == IF hasState THEN p ELSE Null

\* lines 311-313
_setDetailsData(data) == _detailsData' = data

\* lines 318-322
_consumeDetailsData ==
  LET isChanged == (_detailsData = DEFAULT_DETAILS_DATA)
  IN [isChanged |-> isChanged, data |-> IF isChanged THEN _detailsData ELSE Undef]

\* lines 353-369: count is details[DETAILS_CHANGED_FLAG] || 0, 0 when the key is absent
makeDetails(d, increment) ==
  LET count == d.count
      result == [from |-> d.from, data |-> d.data, count |-> count]
  IN IF increment THEN [result EXCEPT !.count = @ + 1] ELSE result

\* lines 457-483: the sdk:router:navigate subscriber; its new details are built
\* from { from, data }, an object without the change flag
NewDetails(from, data) == makeDetails([from |-> from, data |-> data, count |-> 0], TRUE)
NavigateSubscriber(record, direction, to, from) ==
  LET c == _consumeDetailsData
  IN CASE direction = "unchanged" ->
            MapSet(MapDelete(record, from), to, NewDetails(from, c.data))
       [] direction = "backward" ->
            IF c.isChanged
              THEN MapSet(MapDelete(record, from), to, NewDetails(from, c.data))
              ELSE MapDelete(record, from)
       [] OTHER -> MapSet(record, to, NewDetails(from, c.data))

\* lines 401-411: the hook named after the direction
DirectionHook(direction) ==
  CASE direction = "backward" -> "sdk:router:backward"
    [] direction = "unchanged" -> "sdk:router:replace"
    [] OTHER -> "sdk:router:forward"

\* the cursor is recorded before the hooks are called
AfterEachTraceEarly(n, direction, current) ==
  << [name |-> "latestPosition", nav |-> n, arg |-> current],
     [name |-> DirectionHook(direction), nav |-> n, arg |-> direction],
     [name |-> "sdk:router:navigate", nav |-> n, arg |-> direction] >>

\* lines 401-415: what the afterEach hook does for a committed navigation, in order
AfterEachTrace(n, direction, current) ==
  << [name |-> DirectionHook(direction), nav |-> n, arg |-> direction],
     [name |-> "sdk:router:navigate", nav |-> n, arg |-> direction],
     [name |-> "latestPosition", nav |-> n, arg |-> current] >>

\* the entry of key is the same in both records (absent in both, or equal)
SameEntry(before, after, key) ==
  IF key \in DOMAIN before
    THEN key \in DOMAIN after /\ after[key] = before[key]
    ELSE key \notin DOMAIN after

RP_NewNav(kind, to, delta, payload) ==
  [kind |-> kind, to |-> to, from |-> route, delta |-> delta, payload |-> payload,
   dup |-> (kind # "pop" /\ to = route),
   stage |-> "pending", failure |-> NoFailure,
   latest |-> Null, current |-> Null, custom |-> Undef, direction |-> Undef,
   stored |-> "none", storedCount |-> 0, priorCount |-> 0, fromEntry |-> FALSE,
   \* whether the commit left the entry of the target route as it was
   kept |-> TRUE,
   disturbed |-> FALSE]

RP_Request(kind, to, delta, payload) ==
  Append(Disturb(navs), RP_NewNav(kind, to, delta, payload))

\* lines 391-416 and 457-483: afterEach(to, from, failure); newPos is the
\* position of the history when the hook runs
RP_afterEach(n, failure, newPos, ret) ==
  IF isNavigationFailure(failure)
    THEN /\ navs' = [navs EXCEPT ![n] = [@ EXCEPT !.stage = "failed", !.failure = failure]]
         /\ UNCHANGED <<latestPosition, _detailsRecord, trace>>
    ELSE
      LET nav == navs[n]
          latest == latestPosition
          current == getCurrentPosition(newPos)
          direction == IF hasIdentify THEN ret ELSE defaultIdentifyDirection(latest, current)
          record == NavigateSubscriber(_detailsRecord, direction, nav.to, nav.from)
          written == direction # "backward" \/ _consumeDetailsData.isChanged
          prior == IF direction = "forward" THEN _detailsRecord
                   ELSE MapDelete(_detailsRecord, nav.from)
      IN /\ trace' = trace \o AfterEachTrace(n, direction, current)
         /\ _detailsRecord' = record
         /\ latestPosition' = current
         /\ navs' = [navs EXCEPT ![n] =
                [@ EXCEPT !.stage = "committed",
                          !.latest = latest, !.current = current,
                          !.custom = ret, !.direction = direction,
                          !.stored = IF written THEN record[nav.to].data ELSE "none",
                          !.storedCount = IF written THEN record[nav.to].count ELSE 0,
                          !.priorCount = IF nav.to \in DOMAIN prior THEN prior[nav.to].count ELSE 0,
                          !.fromEntry = (nav.from \in DOMAIN record),
                          !.kept = SameEntry(_detailsRecord, record, nav.to)]]

RP_commit(n, ret) ==
  /\ navs[n].stage = "pending"
  /\ ~navs[n].dup
  /\ ~Superseded(n)
  /\ route' = navs[n].to
  /\ hist' = HistAfter(n)
  /\ pos' = PosAfter(n)
  /\ RP_afterEach(n, NoFailure, PosAfter(n), ret)
  /\ UNCHANGED <<calls, hasIdentify, enhanceVars, hasState, _detailsData, ready, tabs, sdkVars>>

RP_fail(n, f) ==
  /\ navs[n].stage = "pending"
  /\ (f = "duplicated") <=> navs[n].dup
  /\ (f = "cancelled") => Superseded(n)
  /\ RP_afterEach(n, f, pos, Undef)
  /\ UNCHANGED <<route, hist, pos, calls, hasIdentify, enhanceVars, hasState, _detailsData, ready, tabs, sdkVars>>

\* lines 386-388: router.isReady().then(...), once the first navigation committed
RP_isReady ==
  /\ ~ready
  /\ route # Start
  /\ ready' = TRUE
  /\ latestPosition' = getCurrentPosition(pos)
  /\ UNCHANGED <<hostVars, hasIdentify, enhanceVars, hasState, _detailsData, _detailsRecord, trace, tabs, sdkVars>>

\* ---- the router methods (the host's, and lines 434-454) ----
RP_hostGo(delta, payload) ==
  IF CanGo(delta)
    THEN navs' = RP_Request("pop", hist[pos + delta], delta, payload)
    ELSE UNCHANGED navs

RP_push(to) ==
  /\ Called
  /\ navs' = RP_Request("push", to, 0, Undef)
  /\ UNCHANGED <<route, hist, pos, hasIdentify, enhanceVars, pluginVars, tabs, sdkVars>>

RP_replace(to) ==
  /\ Called
  /\ navs' = RP_Request("replace", to, 0, Undef)
  /\ UNCHANGED <<route, hist, pos, hasIdentify, enhanceVars, pluginVars, tabs, sdkVars>>

RP_go(delta) ==
  /\ Called
  /\ RP_hostGo(delta, Undef)
  /\ UNCHANGED <<route, hist, pos, hasIdentify, enhanceVars, pluginVars, tabs, sdkVars>>

RP_pushWithData(to, data) ==
  /\ Called
  /\ _setDetailsData(data)
  /\ navs' = RP_Request("push", to, 0, data)
  /\ UNCHANGED <<route, hist, pos, hasIdentify, enhanceVars, hasState, latestPosition, _detailsRecord, ready, trace, tabs, sdkVars>>

RP_replaceWithData(to, data) ==
  /\ Called
  /\ _setDetailsData(data)
  /\ navs' = RP_Request("replace", to, 0, data)
  /\ UNCHANGED <<route, hist, pos, hasIdentify, enhanceVars, hasState, latestPosition, _detailsRecord, ready, trace, tabs, sdkVars>>

RP_goWithData(delta, data) ==
  /\ Called
  /\ _setDetailsData(data)
  /\ RP_hostGo(delta, data)
  /\ UNCHANGED <<route, hist, pos, hasIdentify, enhanceVars, hasState, latestPosition, _detailsRecord, ready, trace, tabs, sdkVars>>

RP_forwardWithData(data) ==
  /\ Called
  /\ _setDetailsData(data)
  /\ RP_hostGo(1, data)
  /\ UNCHANGED <<route, hist, pos, hasIdentify, enhanceVars, hasState, latestPosition, _detailsRecord, ready, trace, tabs, sdkVars>>

RP_backWithData(data) ==
  /\ Called
  /\ _setDetailsData(data)
  /\ RP_hostGo(-1, data)
  /\ UNCHANGED <<route, hist, pos, hasIdentify, enhanceVars, hasState, latestPosition, _detailsRecord, ready, trace, tabs, sdkVars>>

\* lines 344-346
clearDetailsRecord ==
  /\ Called
  /\ _detailsRecord' = EmptyMap
  /\ navs' = Disturb(navs)
  /\ UNCHANGED <<route, hist, pos, hasIdentify, enhanceVars, hasState, latestPosition, _detailsData, ready, trace, tabs, sdkVars>>

\* a fresh application, or one that went START -> /list -> /detail?id=1 by two
\* plain pushes classified forward
InitRouter ==
  \E session \in Sessions :
  /\ InitHost(session)
  /\ hasIdentify \in BOOLEAN
  /\ EnhanceUnused
  /\ hasState \in BOOLEAN
  /\ latestPosition = (IF session = "fresh" THEN Null ELSE getCurrentPosition(2))
  /\ _detailsData = DEFAULT_DETAILS_DATA
  /\ _detailsRecord =
       (IF session = "fresh" THEN EmptyMap
        ELSE MapSet(MapSet(EmptyMap, "/list", NewDetails(Start, _consumeDetailsData.data)),
                    "/detail?id=1", NewDetails("/list", _consumeDetailsData.data)))
  /\ ready = (session # "fresh")
  /\ trace = <<>>
  /\ TabsUnused
  /\ SdkUnused

NextRouter ==
  \/ \E to \in Routes : RP_push(to)
  \/ \E to \in Routes : RP_replace(to)
  \/ \E delta \in Deltas : RP_go(delta)
  \/ \E to \in Routes, data \in Payloads : RP_pushWithData(to, data)
  \/ \E to \in Routes, data \in Payloads : RP_replaceWithData(to, data)
  \/ \E delta \in Deltas, data \in Payloads : RP_goWithData(delta, data)
  \/ \E data \in Payloads : RP_forwardWithData(data)
  \/ \E data \in Payloads : RP_backWithData(data)
  \/ clearDetailsRecord
  \/ \E n \in 1..Len(navs), ret \in (IF hasIdentify THEN Directions ELSE {Undef}) : RP_commit(n, ret)
  \/ \E n \in 1..Len(navs), f \in Failures : RP_fail(n, f)
  \/ RP_isReady

SpecRouter == InitRouter /\ [][NextRouter]_vars

\* ------------------------------------------------------------------------
\* Properties of enhanceRouter (checked under SpecEnhance)
\* ------------------------------------------------------------------------
EndNames == {"sdk:router:direction:end", "sdk:router:forward:end", "sdk:router:backward:end"}
StartNames == {"sdk:router:direction", "sdk:router:forward", "sdk:router:backward"}
Navs == 1..Len(navs)
Events == {events[i] : i \in 1..Len(events)}
Classified(n) == navs[n].direction # Undef
StartedBackward(n) == navs[n].kind = "pop" /\ navs[n].delta < 0

\* C1 (as claimed): an end event is dispatched only for a navigation that
\* committed; a navigation that failed gets no end event.
C1_EndOnlyAfterCommit ==
  \A e \in Events : e.name \in EndNames => navs[e.nav].stage = "committed"

\* C1 (amended): every end event is dispatched by the after-navigation callback
\* of a settled navigation, committed or failed, and carries that callback's
\* failure: undefined exactly when the navigation committed.
C1_EndCarriesOutcome ==
  \A e \in Events : e.name \in EndNames =>
    /\ Settled(e.nav)
    /\ e.failure = navs[e.nav].failure
    /\ (e.failure = NoFailure) <=> (navs[e.nav].stage = "committed")

C1_Witness ==
  \E e \in Events :
    /\ e.name = "sdk:router:direction:end"
    /\ e.failure = "aborted"
    /\ navs[e.nav].stage = "failed"

\* C2: once a navigation has settled the payload buffer is empty, and a
\* navigation started without a payload commits with data undefined.
C2_BufferClearedAfterSettle ==
  \A n \in Navs : Settled(n) =>
    /\ navs[n].bufferAfter = Undef
    /\ (navs[n].stage = "committed" /\ navs[n].payload = Undef) => navs[n].delivered = Undef

\* C3: a navigation that settles with a failure, with no other router call
\* in between, leaves the details cache as it was when it was requested.
C3_FailureKeepsStore ==
  \A n \in Navs : (navs[n].stage = "failed" /\ ~navs[n].disturbed) => navs[n].kept

C6_Witness ==
  \E n1 \in Navs, n2 \in Navs :
    /\ n1 \in navs[n2].overtook
    /\ navs[n1].kind = "push" /\ navs[n1].payload = "x" /\ navs[n1].stage = "failed"
    /\ navs[n2].kind = "push" /\ navs[n2].payload = "y" /\ navs[n2].stage = "committed"
    /\ navs[n2].delivered = "y"
    /\ detailsCache[PathOf(navs[n2].to)].data = "y"

\* C9: without a custom identifyDirection a navigation is classified backward
\* exactly when router.back() or router.go(n), n < 0, started it.
C9_BackwardIffBackOrGo ==
  ~hasIdentify =>
    \A n \in Navs : Classified(n) =>
      ((navs[n].direction = "backward") <=> StartedBackward(n))

\* C10: a navigation whose guard ran uses the value identifyDirection resolved
\* to when that is 'forward' or 'backward' and the default direction
\* otherwise, the guard reaches next(), and every event its guard run
\* produced carries that one direction.
C10_CustomDirection ==
  \A n \in Navs : navs[n].dflt # Undef /\ navs[n].stage # "entered" =>
    /\ navs[n].custom \in {"forward", "backward"} => navs[n].direction = navs[n].custom
    /\ navs[n].custom \notin {"forward", "backward"} => navs[n].direction = navs[n].dflt
    /\ \A e \in Events : (e.by = n /\ e.name \in StartNames \cup EndNames) =>
         /\ e.arg = navs[n].direction
         /\ e.name \in {"sdk:router:direction", "sdk:router:direction:end",
                        "sdk:router:" \o navs[n].direction,
                        "sdk:router:" \o navs[n].direction \o ":end"}

C10_Witness ==
  \E n \in Navs, m \in Navs :
    /\ navs[n].custom = "unchanged" /\ navs[n].dflt = "backward"
    /\ navs[n].direction = "backward" /\ navs[n].stage = "committed"
    /\ navs[m].custom = "backward" /\ navs[m].dflt = "forward"
    /\ navs[m].direction = "backward" /\ navs[m].stage = "committed"
    /\ \E e \in Events : e.by = m /\ e.name = "sdk:router:backward:end"

\* ------------------------------------------------------------------------
\* Properties of the direction guard (checked under SpecGuard) and of
\* beforeOnce (checked under SpecOnce)
\* ------------------------------------------------------------------------
SubsOf(n) == {navs[n].subs[i] : i \in 1..Len(navs[n].subs)}
StartEventsBy(n) == {i \in 1..Len(events) : events[i].by = n /\ events[i].name \in StartNames}
AfterEachRuns == {i \in 1..Len(events) : events[i].name = "afterEach"}
GuardRuns == {i \in 1..Len(events) : events[i].name = "beforeOnce"}

\* C11 (as claimed): the guard calls next() only after the subscribers of
\* both start events have settled, and a navigation with a subscriber that
\* threw or returned false does not commit.
C11_SubscriberVeto ==
  \A n \in Navs :
    /\ navs[n].next => (Len(navs[n].subs) = 2 /\ Cardinality(StartEventsBy(n)) = 2)
    /\ (SubsOf(n) \cap {"throws", "false"} # {}) => navs[n].stage # "committed"

\* C11 (amended): the guard calls next() only after the subscribers of both
\* start events have resolved; a subscriber that throws keeps the guard from
\* calling next(), the navigation never commits and no after-navigation
\* callback runs for it; a navigation whose guard ran commits only after
\* next(). (What a subscriber returns, false included, is not looked at.)
C11_SubscriberThrowVetoes ==
  \A n \in Navs :
    /\ navs[n].next =>
         /\ Len(navs[n].subs) = 2
         /\ "throws" \notin SubsOf(n)
         /\ Cardinality(StartEventsBy(n)) = 2
    /\ "throws" \in SubsOf(n) =>
         /\ ~navs[n].next
         /\ navs[n].stage = "errored"
         /\ \A i \in AfterEachRuns : events[i].nav # n
    /\ (navs[n].stage = "committed" /\ ~navs[n].skipped) => navs[n].next

C11_Witness ==
  \E n \in Navs, m \in Navs :
    /\ "false" \in SubsOf(n) /\ navs[n].stage = "committed"
    /\ navs[m].subs = <<"resolved", "throws">> /\ navs[m].stage = "errored"

\* the wrapper of beforeOnce ran for navigation n (invoking the guard or not)
ReachedOnce(n) == navs[n].skipped \/ navs[n].dflt # Undef
\* navigation n is the first one that started after an after-navigation callback
FirstAfterCallback(n) == navs[n].seen > (IF n = 1 THEN 0 ELSE navs[n - 1].seen)

\* C12: between two invocations of the beforeOnce guard an after-navigation
\* callback has run, and the guard is invoked during the first navigation that
\* starts after an after-navigation callback has run, once that navigation
\* reaches the guard.
C12_BeforeOnceRearms ==
  /\ \A i \in GuardRuns, j \in GuardRuns :
       i < j => \E k \in AfterEachRuns : i < k /\ k < j
  /\ \A n \in Navs : (FirstAfterCallback(n) /\ ReachedOnce(n)) => ~navs[n].skipped

\* ------------------------------------------------------------------------
\* Properties of the Router plugin (checked under SpecRouter)
\* ------------------------------------------------------------------------
Committed(n) == navs[n].stage = "committed"
TraceOf(n) == {i \in 1..Len(trace) : trace[i].nav = n}
CursorUpdates(n) == {i \in TraceOf(n) : trace[i].name = "latestPosition"}

\* C4: pushWithData('/detail?id=1', 'x') issued on /list and committed forward
\* leaves the entry '/detail?id=1' with data 'x' and change count 1; a
\* committed backward navigation from /detail?id=1 to /list leaves no entry
\* for '/detail?id=1'.
C4_ScenarioA ==
  /\ \A n \in Navs :
       ( /\ Committed(n) /\ navs[n].kind = "push" /\ navs[n].payload = "x"
         /\ navs[n].from = "/list" /\ navs[n].to = "/detail?id=1"
         /\ navs[n].direction = "forward" ) =>
       (navs[n].stored = "x" /\ navs[n].storedCount = 1)
  /\ \A n \in Navs :
       ( /\ Committed(n) /\ navs[n].direction = "backward"
         /\ navs[n].from = "/detail?id=1" /\ navs[n].to = "/list" ) =>
       ~navs[n].fromEntry

\* C5: a commit of details for a route key that already has an entry writes
\* a strictly larger change count than the entry had.
C5_ChangeCountIncreases ==
  \A n \in Navs :
    (Committed(n) /\ navs[n].storedCount > 0 /\ navs[n].priorCount > 0) =>
    navs[n].storedCount > navs[n].priorCount

\* the classification table of the claim
Positions == 0..(MaxCalls + 2)
ClassifiedAsClaimed(latest, current, direction) ==
  /\ (latest = Null \/ current = Null) => direction = "forward"
  /\ (latest # Null /\ current # Null /\ current < latest) => direction = "backward"
  /\ (latest # Null /\ current # Null /\ current = latest) => direction = "unchanged"
  /\ (latest # Null /\ current # Null /\ current > latest) => direction = "forward"

\* C7: defaultIdentifyDirection returns a direction for every pair of
\* positions, null included: forward if either is null, backward if
\* current < latest, unchanged if equal, forward if current > latest; every
\* navigation the plugin classifies by default is classified so.
C7_DefaultDirection ==
  /\ \A latest \in Positions \cup {Null}, current \in Positions \cup {Null} :
       /\ defaultIdentifyDirection(latest, current) \in Directions
       /\ ClassifiedAsClaimed(latest, current, defaultIdentifyDirection(latest, current))
  /\ ~hasIdentify =>
       \A n \in Navs : Committed(n) =>
         ClassifiedAsClaimed(navs[n].latest, navs[n].current, navs[n].direction)

C7_Witness ==
  /\ ~hasIdentify
  /\ \E n \in Navs, m \in Navs :
       /\ Committed(n) /\ navs[n].current # Null /\ navs[n].current < navs[n].latest
       /\ navs[n].direction = "backward"
       /\ Committed(m) /\ navs[m].current # Null /\ navs[m].current = navs[m].latest
       /\ navs[m].direction = "unchanged"

\* C8: every committed navigation updates latestPosition exactly once, to its
\* new history position, after its direction hook and sdk:router:navigate
\* were dispatched, with or without a custom identifyDirection; a navigation
\* that failed dispatches nothing and leaves the cursor alone.
C8_CursorOncePerNavigation ==
  /\ \A n \in Navs : Committed(n) =>
       /\ Cardinality(CursorUpdates(n)) = 1
       /\ \A i \in CursorUpdates(n) :
            /\ trace[i].arg = navs[n].current
            /\ \E j \in TraceOf(n), k \in TraceOf(n) :
                 /\ k < j /\ j < i
                 /\ trace[k].name = DirectionHook(navs[n].direction)
                 /\ trace[j].name = "sdk:router:navigate"
  /\ \A n \in Navs : ~Committed(n) => TraceOf(n) = {}
  /\ \A i \in 1..Len(trace) :
       (trace[i].name = "latestPosition" /\ \A j \in (i + 1)..Len(trace) : trace[j].name # "latestPosition")
       => (latestPosition = trace[i].arg /\ latestPosition = getCurrentPosition(pos))

C8_Witness ==
  /\ hasIdentify /\ hasState
  /\ \E n \in Navs, m \in Navs :
       /\ Committed(n) /\ navs[n].kind = "push" /\ navs[n].custom = "backward"
       /\ navs[m].stage = "failed" /\ n < m
       /\ latestPosition = navs[n].current
       /\ latestPosition = navs[n].latest + 1

\* ========================================================================
\* The KeepAlive plugin (class KeepAlive)
\* ========================================================================
\* route.matched: the chain of route records a route is matched by, two
\* routes under one layout, two flat routes, and the flat routes of the tabs
matched(path) ==
  IF path = "/a" THEN <<"layout", "a">>
  ELSE IF path = "/b" THEN <<"layout", "b">>
  ELSE IF path = "/s" THEN <<"s">>
  ELSE IF path = "/t" THEN <<"t">>
  ELSE IF path = "/home" THEN <<"home">>
  ELSE IF path \in {"/p?x=1", "/p?x=2"} THEN <<"p">>
  ELSE IF path \in {"/u?x=1", "/u?x=2"} THEN <<"u">>
  ELSE IF path = "/login" THEN <<"login">>
  ELSE <<>>
\* resolveComponentNameByRoute(record): the name of the record's default
\* component; the records "a" and "t" show the same component
ComponentNameOf(record) ==
  IF record = "layout" THEN "Layout"
  ELSE IF record \in {"a", "t"} THEN "A"
  ELSE IF record = "b" THEN "B"
  ELSE IF record = "s" THEN "S"
  ELSE IF record = "home" THEN "Home"
  ELSE IF record = "p" THEN "P"
  ELSE IF record = "u" THEN "U"
  ELSE IF record = "login" THEN "Login"
  ELSE ""
Elements(seq) == {seq[i] : i \in 1..Len(seq)}

\* a KeepAlive instance after install: _values, _isAuto, _timeRecord, the
\* clock Date.now() reads, options.staleTime (0: none), the route shown, the
\* promise chains of add(route) and remove(route) not settled yet, and the
\* number of calls made on it
NewKeepAlive(values, isAuto, staleTime, current) ==
  [installed |-> TRUE, isAuto |-> isAuto, values |-> values,
   timeRecord |-> [name \in values |-> 0], now |-> 0, staleTime |-> staleTime,
   route |-> current, jobs |-> <<>>, ops |-> 0,
   \* the constructor's startStaleTimer: _staleTimer (0: null) and the
   \* timeouts pending in the event loop, by id
   _staleTimer |-> IF staleTime > 0 THEN 1 ELSE 0,
   timers |-> IF staleTime > 0 THEN {1} ELSE {},
   nextTimer |-> IF staleTime > 0 THEN 2 ELSE 1,
   \* timeouts that fired, whether the uninstall function ran with no
   \* startStaleTimer since, and whether a timeout fired in that time
   fired |-> 0, tornDown |-> FALSE, leaked |-> FALSE,
   \* the time each cached name was last added at, and the last eviction run
   added |-> [name \in values |-> 0], run |-> [done |-> FALSE]]

_updateTime(ka, value) == [ka EXCEPT !.timeRecord = MapSet(@, value, ka.now)]
_removeTime(ka, value) == [ka EXCEPT !.timeRecord = MapDelete(@, value)]
\* set(values): _values is replaced, _timeRecord is left as it is
set(ka, values) ==
  [ka EXCEPT !.values = values,
             !.added = [name \in values |-> IF name \in DOMAIN @ THEN @[name] ELSE ka.now]]
clear(ka) == set(ka, {})
\* add(name) and remove(name)
addName(ka, name) ==
  IF name = "" \/ name \in ka.values THEN ka
  ELSE set(_updateTime(ka, name), ka.values \cup {name})
removeName(ka, name) ==
  IF name = "" \/ name \notin ka.values THEN ka
  ELSE set(_removeTime(ka, name), ka.values \ {name})
toggleAuto(ka, value) == [ka EXCEPT !.isAuto = value]
disableAuto(ka) == toggleAuto(ka, FALSE)
\* clearExpired(): the entries of _timeRecord younger than staleTime name the
\* values that are kept, the other entries are the new _timeRecord
clearExpired(ka) ==
  IF ka.staleTime <= 0 THEN ka
  ELSE LET fresh == {key \in DOMAIN ka.timeRecord : ka.now - ka.timeRecord[key] < ka.staleTime}
       IN set([ka EXCEPT !.timeRecord = [key \in (DOMAIN @) \ fresh |-> @[key]]], fresh)

\* ---- add(route) and remove(route): a promise chain per route record ----
\* one chain per record of pending, each settled by its own step; a handler
\* of 'sdk:router:navigate' first awaits its removals, then its additions
Job(op, direction, to, from, pc, pending, ka) ==
  [op |-> op, direction |-> direction, to |-> to, from |-> from, pc |-> pc,
   pending |-> pending, passed |-> {}, failed |-> {},
   \* the values at the call and at the end, and whether no other chain or
   \* call ran in between
   before |-> ka.values, after |-> {},
   alone |-> \A j \in 1..Len(ka.jobs) : ka.jobs[j].pc = "done"]
Disturbed(ka) ==
  [ka EXCEPT !.jobs = [j \in 1..Len(@) |->
                         IF @[j].pc = "done" THEN @[j] ELSE [@[j] EXCEPT !.alone = FALSE]]]
Started(ka, job) == [Disturbed(ka) EXCEPT !.jobs = Append(@, job)]
\* add(record) called by another plugin
addRoute(ka, record) ==
  Started(ka, Job("add", "forward", "", "", "add", {record}, ka))
needRemoveMatched(to, from) == Elements(matched(from)) \ Elements(matched(to))
\* the handler install registers on 'sdk:router:navigate'
navigateHandlerForward(ka, direction, to, from) ==
  IF ~ka.isAuto THEN ka
  ELSE Started(ka, Job("navigate", direction, to, from, "add", Elements(matched(to)), ka))
navigateHandler(ka, direction, to, from) ==
  IF ~ka.isAuto THEN ka
  ELSE IF direction = "backward" /\ needRemoveMatched(to, from) # {}
    THEN Started(ka, Job("navigate", direction, to, from, "remove", needRemoveMatched(to, from), ka))
    ELSE Started(ka, Job("navigate", direction, to, from, "add", Elements(matched(to)), ka))
\* the chain of one record settles: beforeRouteAdd / beforeRouteRemove
\* answered valid, the component name resolved, add(name) / remove(name) ran
settle(ka, k, record, valid) ==
  LET job == ka.jobs[k]
      name == ComponentNameOf(record)
      ka1 == IF ~valid THEN ka
             ELSE IF job.pc = "remove" THEN removeName(ka, name) ELSE addName(ka, name)
      rest == job.pending \ {record}
      job1 == [job EXCEPT !.pending = rest,
                          !.passed = IF valid THEN @ \cup {<<job.pc, record>>} ELSE @,
                          !.failed = IF valid THEN @ ELSE @ \cup {<<job.pc, record>>}]
      job2 == IF rest # {} THEN job1
              ELSE IF job.pc = "remove"
                THEN [job1 EXCEPT !.pc = "add", !.pending = Elements(matched(job.to))]
                ELSE [job1 EXCEPT !.pc = "done", !.after = ka1.values]
  IN [ka1 EXCEPT !.jobs[k] = job2]

KeepFrame == UNCHANGED <<hostVars, hasIdentify, enhanceVars, pluginVars, tabs, scroller, sdk, ids, moreVars>>
\* the names updateKeepAlive of the Tabs plugin resolved are set
KeepAlive_set(k) ==
  /\ keepAlive.installed
  /\ k \in 1..Len(keepAlive.jobs)
  /\ keepAlive.jobs[k].pc = "set"
  /\ keepAlive' = [set(keepAlive, keepAlive.jobs[k].pending) EXCEPT
                      !.jobs[k].pc = "done", !.jobs[k].after = keepAlive.jobs[k].pending]
  /\ KeepFrame
\* a promise chain of add(route) / remove(route) settles
KeepAlive_settle(k, record, valid) ==
  /\ keepAlive.installed
  /\ k \in 1..Len(keepAlive.jobs)
  /\ keepAlive.jobs[k].pc \in {"add", "remove"}
  /\ record \in keepAlive.jobs[k].pending
  /\ keepAlive' = settle(keepAlive, k, record, valid)
  /\ KeepFrame

\* ---- the plugin on its own, in auto mode ----
KeepRoutes == {"/a", "/b", "/s", "/t"}
MaxKeepOps == 2
KeepCanCall == keepAlive.installed /\ keepAlive.ops < MaxKeepOps
KeepCalled(ka) == [ka EXCEPT !.ops = @ + 1]
NamesOf(records) == {ComponentNameOf(record) : record \in records} \ {""}
\* the Router plugin dispatches 'sdk:router:navigate' for a confirmed navigation
KeepAlive_navigate(direction, to) ==
  /\ KeepCanCall
  /\ to # keepAlive.route
  /\ keepAlive' = [navigateHandler(KeepCalled(keepAlive), direction, to, keepAlive.route)
                     EXCEPT !.route = to]
  /\ KeepFrame
KeepAlive_toggleAuto ==
  /\ KeepCanCall
  /\ keepAlive' = toggleAuto(KeepCalled(keepAlive), ~keepAlive.isAuto)
  /\ KeepFrame
\* the application shows a route whose matched records are cached
InitKeepAlive ==
  /\ InitHost("fresh")
  /\ hasIdentify = FALSE
  /\ EnhanceUnused
  /\ PluginUnused
  /\ TabsUnused
  /\ scroller = NoPlugin /\ sdk = NoPlugin /\ ids = NoIds /\ MoreUnused
  /\ \E current \in KeepRoutes :
       keepAlive = NewKeepAlive(NamesOf(Elements(matched(current))), TRUE, 0, current)
NextKeepAlive ==
  \/ \E direction \in Directions, to \in KeepRoutes : KeepAlive_navigate(direction, to)
  \/ KeepAlive_toggleAuto
  \/ \E k \in 1..Len(keepAlive.jobs) : \E record \in keepAlive.jobs[k].pending, valid \in BOOLEAN :
       KeepAlive_settle(k, record, valid)
SpecKeepAlive == InitKeepAlive /\ [][NextKeepAlive]_vars

\* ---- the plugin with options.staleTime ----
StaleTime == 2
MaxNow == 3
KeepNames == {"A", "B"}
\* time passes
KeepAlive_tick ==
  /\ keepAlive.installed
  /\ keepAlive.now < MaxNow
  /\ keepAlive' = [keepAlive EXCEPT !.now = @ + 1]
  /\ KeepFrame
\* the timer of startStaleTimer fires, or clearExpired() is called
KeepAlive_clearExpired ==
  /\ KeepCanCall
  /\ LET ka == clearExpired(KeepCalled(keepAlive)) IN
     keepAlive' = [ka EXCEPT !.run = [done |-> TRUE, before |-> keepAlive.values,
                                      added |-> keepAlive.added, now |-> keepAlive.now,
                                      after |-> ka.values]]
  /\ KeepFrame
KeepAlive_add(name) ==
  /\ KeepCanCall
  /\ keepAlive' = addName(KeepCalled(keepAlive), name)
  /\ KeepFrame
KeepAlive_remove(name) ==
  /\ KeepCanCall
  /\ keepAlive' = removeName(KeepCalled(keepAlive), name)
  /\ KeepFrame
KeepAlive_setValues(values) ==
  /\ KeepCanCall
  /\ keepAlive' = set(KeepCalled(keepAlive), values)
  /\ KeepFrame
\* new KeepAlive({ autoCollectAndClean: false, staleTime }): the constructor's
\* startStaleTimer ran clearExpired on the empty cache
InitStale ==
  /\ InitHost("fresh")
  /\ hasIdentify = FALSE
  /\ EnhanceUnused
  /\ PluginUnused
  /\ TabsUnused
  /\ scroller = NoPlugin /\ sdk = NoPlugin /\ ids = NoIds /\ MoreUnused
  /\ keepAlive = NewKeepAlive({}, FALSE, StaleTime, "/s")
NextStale ==
  \/ KeepAlive_tick
  \/ KeepAlive_clearExpired
  \/ \E name \in KeepNames : KeepAlive_add(name)
  \/ \E name \in KeepNames : KeepAlive_remove(name)
  \/ \E values \in SUBSET KeepNames : KeepAlive_setValues(values)
SpecStale == InitStale /\ [][NextStale]_vars

\* ========================================================================
\* The Tabs plugin (class Tabs)
\* ========================================================================
\* the routes of the application: an affixed page, a page that may be opened
\* once per fullPath, a page unique in the tab bar, and a route whose meta
\* carries no page metadata
TabRoutes == {"/home", "/p?x=1", "/p?x=2", "/u?x=1", "/u?x=2", "/login"}
PagedRoutes == TabRoutes \ {"/login"}
hasMetadata(path) == path \in PagedRoutes
PageOf(path) ==
  IF path = "/home" THEN [id |-> "home", isAffix |-> TRUE, isUniq |-> FALSE]
  ELSE IF path \in {"/p?x=1", "/p?x=2"} THEN [id |-> "p", isAffix |-> FALSE, isUniq |-> FALSE]
  ELSE [id |-> "u", isAffix |-> FALSE, isUniq |-> TRUE]
\* route.meta._metadata || {}: the id of {} reads undefined, and its flags,
\* which are only tested for truth, read falsy
NoMetadata == [id |-> Undef, isAffix |-> FALSE, isUniq |-> FALSE]
getMetadata(path) == IF hasMetadata(path) THEN PageOf(path) ELSE NoMetadata
\* an id that carries the fullPath whatever isUniq is
generateIDWithPath(pageId, fullPath, isUniq) ==
  pageId \o "__" \o fullPath
\* `${pageId}`, followed by `__${fullPath}` unless isUniq is truthy
generateID(pageId, fullPath, isUniq) ==
  IF isUniq = TRUE THEN pageId ELSE pageId \o "__" \o fullPath
\* { ...rawPageToTabPage(metadata), id: generateID(route), fullPath }
createTabPage(path) ==
  LET metadata == getMetadata(path) IN
  [id |-> generateID(metadata.id, path, metadata.isUniq), pageId |-> metadata.id,
   fullPath |-> path, isAffix |-> metadata.isAffix, isUniq |-> metadata.isUniq]
TabIds == {createTabPage(path).id : path \in TabRoutes}

\* ---- arrays as JavaScript indexes them (from 0; -1 is "not found") ----
findIndex(pages, id) ==
  IF \E i \in 1..Len(pages) : pages[i].id = id
    THEN (CHOOSE i \in 1..Len(pages) :
            pages[i].id = id /\ \A j \in 1..(i - 1) : pages[j].id # id) - 1
    ELSE 0 - 1
InRange(pages, i) == i >= 0 /\ i < Len(pages)
\* pages[i]?.id || ''
IdAt(pages, i) == IF InRange(pages, i) THEN pages[i + 1].id ELSE ""
\* Array.prototype.slice's clamping of a start or end index
SliceIndex(k, len) ==
  IF k < 0 THEN (IF len + k < 0 THEN 0 ELSE len + k) ELSE (IF k > len THEN len ELSE k)
slice(pages, start, end) ==
  SubSeq(pages, SliceIndex(start, Len(pages)) + 1, SliceIndex(end, Len(pages)))
\* pages.filter((p, i) => i in keep), keep given in 0-based indexes
FilterIndexes(pages, keep) ==
  LET F[i \in 0..Len(pages)] ==
        IF i = 0 THEN <<>>
        ELSE IF (i - 1) \in keep THEN Append(F[i - 1], pages[i]) ELSE F[i - 1]
  IN F[Len(pages)]
IdsOf(pages) == [i \in 1..Len(pages) |-> pages[i].id]
IdSet(pages) == {pages[i].id : i \in 1..Len(pages)}
isAffix(p) == p.isAffix = TRUE

\* ---- the router under the plugin ----
\* a navigation started by router.push(to); a push to the current location is
\* a duplicated navigation, which runs no guard and changes nothing here
TabNav(to, t) ==
  [to |-> to, stage |-> "pending", result |-> "", old |-> "", hooked |-> FALSE,
   spawned |-> 0, before |-> t.pages, beforeActive |-> t.active,
   after |-> <<>>, afterActive |-> ""]
routerPush(t, to) ==
  IF to = t.route THEN t ELSE [t EXCEPT !.navs = Append(@, TabNav(to, t))]

\* ---- synchronous methods, as functions of the instance ----
\* _setActive, then processEmptyActive / router.push / the warning
setActive(t, id) ==
  IF id = t.active THEN t
  ELSE LET t1 == [t EXCEPT !.active = id]
           index == findIndex(t1.pages, id)
       IN IF id = "" THEN t1
          ELSE IF index >= 0 /\ t1.route # t1.pages[index + 1].fullPath
                 THEN routerPush(t1, t1.pages[index + 1].fullPath)
                 ELSE t1
\* updateTabPage(target, { fullPath }): the first tab with the id gets the
\* fullPath, a fresh id unless it is unique, and stays active under its new id
updateTabPageKeepId(t, id, fullPath) ==
  LET index == findIndex(t.pages, id) IN
  IF index < 0 THEN t ELSE [t EXCEPT !.pages[index + 1].fullPath = fullPath]
updateTabPage(t, id, fullPath) ==
  LET index == findIndex(t.pages, id) IN
  IF index < 0 THEN t
  ELSE LET tabPage == t.pages[index + 1]
           needUpdateId == tabPage.fullPath # fullPath /\ tabPage.isUniq # TRUE
           moved == [tabPage EXCEPT !.fullPath = fullPath]
           updated == IF needUpdateId
                        THEN [moved EXCEPT !.id = generateID(moved.pageId, moved.fullPath, moved.isUniq)]
                        ELSE moved
       IN [t EXCEPT !.pages[index + 1] = updated,
                    !.active = IF needUpdateId /\ id = t.active THEN updated.id ELSE @]
\* matchSameTabPage: the tabs of the same page, and whether one has the fullPath
fuzzy(pages, tabPage) == SelectSeq(pages, LAMBDA p : p.pageId = tabPage.pageId)
exact(pages, tabPage) ==
  \E i \in 1..Len(pages) : pages[i].pageId = tabPage.pageId /\ pages[i].fullPath = tabPage.fullPath
isExist(pages, tabPage) ==
  IF tabPage.isUniq = TRUE THEN Len(fuzzy(pages, tabPage)) > 0 ELSE exact(pages, tabPage)

\* ---- asynchronous methods: one record per call, kept after it returns ----
\* before/beforeActive are the list and the active id when the call was made,
\* alone says that every resumption found them as the call had left them,
\* after/afterActive are the list and the active id when the call returned
Task(op, arg, pc, t) ==
  [op |-> op, arg |-> arg, pc |-> pc, side |-> "", force |-> FALSE,
   tab |-> createTabPage("/home"), index |-> 0 - 1, reset |-> FALSE, cand |-> <<>>,
   veto |-> 0, ret |-> "pending", nav |-> 0,
   before |-> t.pages, beforeActive |-> t.active, alone |-> TRUE,
   after |-> <<>>, afterActive |-> "",
   \* the ids the call took out of the list when it resumed
   removed |-> {}]
Undisturbed(t, k) ==
  /\ t.tasks[k].alone
  /\ t.pages = t.tasks[k].before
  /\ t.active = t.tasks[k].beforeActive
\* the call k returns ret, leaving the instance as t2
Return(t, k, t2, ret) ==
  [t2 EXCEPT !.tasks[k].pc = "done", !.tasks[k].ret = ret,
             !.tasks[k].alone = Undisturbed(t, k),
             !.tasks[k].after = t2.pages, !.tasks[k].afterActive = t2.active,
             !.tasks[k].removed = IdSet(t.pages) \ IdSet(t2.pages)]
\* the call k returns ret without touching the instance
Refused(k, veto, ret) == Return(tabs, k, [tabs EXCEPT !.tasks[k].veto = veto], ret)
\* the call k goes on to mutate the instance
Allowed(k, veto, t2, ret) == Return(tabs, k, [t2 EXCEPT !.tasks[k].veto = veto], ret)
\* a call that returns without suspending
Returned(task, t2, ret) ==
  [task EXCEPT !.pc = "done", !.ret = ret, !.after = t2.pages, !.afterActive = t2.active]
Spawn(t, task) == [t EXCEPT !.tasks = Append(@, task)]
Suspended(k, op, pc) ==
  /\ k \in 1..Len(tabs.tasks)
  /\ tabs.tasks[k].op = op
  /\ tabs.tasks[k].pc = pc

\* the calls made on the instance and the navigations of its router are bounded
MaxOps == 2
MaxTabNavs == 3
TabsFrame == UNCHANGED <<hostVars, hasIdentify, enhanceVars, pluginVars, scroller, sdk, ids, moreVars>>
TabsCanCall == tabs.ops < MaxOps
TabsCalled == [tabs EXCEPT !.ops = @ + 1]
StepBoth(t2, ka2) ==
  /\ Len(t2.navs) <= MaxTabNavs
  /\ tabs' = t2
  /\ keepAlive' = ka2
  /\ TabsFrame
Step(t2) == StepBoth(t2, keepAlive)

\* ---- what the instance does to the KeepAlive plugin, if one is registered ----
\* the component name addOne stored in the tab: that of the first route whose
\* metadata id is the tab's pageId
RecordOfPage(pageId) == IF pageId = Undef THEN "login" ELSE pageId
componentName(tabPage) == ComponentNameOf(RecordOfPage(tabPage.pageId))
\* tabPage.isKeepAlive ?? options.keepAlive ?? true
isKeepAlive(tabPage) == IF "isKeepAlive" \in DOMAIN tabPage THEN tabPage.isKeepAlive ELSE TRUE
\* the getter _keepAlive: reading it turns the plugin's auto mode off
_keepAlive(ka) == IF ka.installed /\ ka.isAuto THEN disableAuto(ka) ELSE ka
\* this._keepAlive && componentName && this._keepAlive.remove(componentName)
removeComponent(ka, name) ==
  LET plugin == _keepAlive(ka) IN
  IF plugin.installed /\ name # "" THEN removeName(Disturbed(plugin), name) ELSE plugin
\* updateKeepAlive(), which setTabPages calls without awaiting it: the names
\* of the tabs kept alive are resolved one await each, then set
updateKeepAlive(ka, pages) ==
  LET plugin == _keepAlive(ka)
      names == {componentName(pages[i]) : i \in {j \in 1..Len(pages) : isKeepAlive(pages[j])}} \ {""}
  IN IF ~plugin.installed THEN plugin
     ELSE IF names = {} THEN set(Disturbed(plugin), {})
     ELSE Started(plugin, Job("set", "", "", "", "set", names, plugin))
\* the tail of addOne for a tab it pushed: route.matched.forEach(_keepAlive.add)
addMatched(ka, tabPage) ==
  IF ~isKeepAlive(tabPage) THEN ka
  ELSE LET plugin == _keepAlive(ka) IN
       IF plugin.installed
         THEN Started(plugin, Job("add", "", tabPage.fullPath, "", "add",
                                  Elements(matched(tabPage.fullPath)), plugin))
         ELSE plugin
\* updateTabPage's removal of the component name when the tab's id changes
updateTabPageCache(ka, t, id, fullPath) ==
  LET index == findIndex(t.pages, id) IN
  IF index < 0 THEN ka
  ELSE LET tabPage == t.pages[index + 1] IN
       IF tabPage.fullPath # fullPath /\ tabPage.isUniq # TRUE
         THEN removeComponent(ka, componentName(tabPage))
         ELSE ka
\* the plugin's own handler of 'sdk:router:navigate'
navigated(ka, direction, to, from) ==
  IF ka.installed THEN navigateHandler(ka, direction, to, from) ELSE ka

\* addOne(route), up to the await of beforeAdd(page): page is never falsy
Tabs_addOne(path) ==
  /\ TabsCanCall
  /\ Step(Spawn(TabsCalled, Task("addOne", path, "beforeAdd", tabs)))
\* beforeAdd resolved: return, or activate the tab that exists, or go resolve
\* the component name of the tab to add
Tabs_addOne_beforeAdd(k, allow) ==
  /\ Suspended(k, "addOne", "beforeAdd")
  /\ LET tabPage == createTabPage(tabs.tasks[k].arg) IN
     IF ~allow THEN Step(Refused(k, 1, "void"))
     ELSE IF isExist(tabs.pages, tabPage)
       THEN Step(Return(tabs, k, setActive(tabs, tabPage.id), "void"))
       ELSE Step([tabs EXCEPT !.tasks[k].pc = "componentName",
                              !.tasks[k].tab = tabPage,
                              !.tasks[k].alone = Undisturbed(tabs, k)])
\* the component name resolved: push the tab and activate it
Tabs_addOne_componentName(k) ==
  /\ Suspended(k, "addOne", "componentName")
  /\ LET tabPage == tabs.tasks[k].tab
         pushed == [tabs EXCEPT !.pages = Append(@, tabPage)]
     IN StepBoth(Return(tabs, k, setActive(pushed, tabPage.id), "void"),
                 addMatched(keepAlive, tabPage))

Tabs_setActive(id) ==
  /\ TabsCanCall
  /\ Step(setActive(TabsCalled, id))

\* updateTabPage(target, { fullPath }), which updateFullPath ends in
UpdatePaths == {"/p?x=1", "/p?x=2", "/u?x=2"}
Tabs_updateTabPage(id, fullPath) ==
  /\ TabsCanCall
  /\ id \in IdSet(tabs.pages)
  /\ StepBoth(updateTabPage(TabsCalled, id, fullPath),
              updateTabPageCache(keepAlive, tabs, id, fullPath))

\* tryRemoveTabPages(pages): beforeRemove is asked page by page and veto is the
\* position of the first page it refuses (0: none)
tryRemoveLast(cand, veto) == Len(cand) > 0 /\ veto # Len(cand)
tryRemoveTabPages(cand, veto) == Len(cand) > 0 /\ veto = 0
Vetoes(k) == 0..Len(tabs.tasks[k].cand)

\* this.pages[index - 1] || this.pages[index + 1], as the id setActive resolves
nextTabPageRight(pages, index) ==
  IF IdAt(pages, index + 1) # "" THEN IdAt(pages, index + 1) ELSE IdAt(pages, index - 1)
nextTabPage(pages, index) ==
  IF IdAt(pages, index - 1) # "" THEN IdAt(pages, index - 1) ELSE IdAt(pages, index + 1)
\* removeOne(value), up to the await of tryRemoveTabPages
Tabs_removeOne(id) ==
  /\ TabsCanCall
  /\ LET index == findIndex(tabs.pages, id)
         task == Task("removeOne", id, "beforeRemove", tabs)
     IN IF index = 0 - 1 \/ isAffix(tabs.pages[index + 1])
          THEN Step(Spawn(TabsCalled, Returned(task, tabs, "true")))
          ELSE Step(Spawn(TabsCalled, [task EXCEPT !.index = index, !.cand = <<id>>]))
\* pages.splice(index, 1)[0] is undefined when index is past the end, and
\* destructuring it throws
Tabs_removeOne_resume(k, veto) ==
  /\ Suspended(k, "removeOne", "beforeRemove")
  /\ veto \in Vetoes(k)
  /\ LET task == tabs.tasks[k]
         index == task.index
         isCurrent == task.arg = tabs.active
         t1 == IF isCurrent THEN setActive(tabs, nextTabPage(tabs.pages, index)) ELSE tabs
         t2 == [t1 EXCEPT !.pages = FilterIndexes(@, (0..(Len(@) - 1)) \ {index})]
     IN IF ~tryRemoveTabPages(task.cand, veto)
          THEN Step(Refused(k, veto, "false"))
          ELSE IF InRange(tabs.pages, index)
            THEN StepBoth(Allowed(k, veto, t2, "true"),
                          removeComponent(keepAlive, componentName(tabs.pages[index + 1])))
            ELSE Step(Allowed(k, veto, t1, "throws"))

NonAffixIds(pages) == IdsOf(SelectSeq(pages, LAMBDA p : ~isAffix(p)))
Sides == {"left", "right"}
\* removeSide(side, source), up to the await of tryRemoveTabPages
Tabs_removeSide(side, id) ==
  /\ TabsCanCall
  /\ LET isLeft == side = "left"
         index == findIndex(tabs.pages, id)
         activeIndex == findIndex(tabs.pages, tabs.active)
         needResetActive ==
           id # "" /\ id # tabs.active
           /\ (IF isLeft THEN activeIndex < index ELSE activeIndex > index)
         sourceIndex == IF id # "" THEN index ELSE 0 - 1
         needRemovePages ==
           IF isLeft THEN slice(tabs.pages, 0, sourceIndex)
           ELSE slice(tabs.pages, sourceIndex + 1, Len(tabs.pages))
     IN Step(Spawn(TabsCalled, [Task("removeSide", id, "beforeRemove", tabs) EXCEPT
                              !.side = side, !.index = sourceIndex,
                              !.reset = needResetActive,
                              !.cand = NonAffixIds(needRemovePages)]))
Tabs_removeSide_resume(k, veto) ==
  /\ Suspended(k, "removeSide", "beforeRemove")
  /\ veto \in Vetoes(k)
  /\ LET task == tabs.tasks[k]
         sourceIndex == task.index
         t1 == IF task.reset THEN setActive(tabs, IdAt(tabs.pages, sourceIndex)) ELSE tabs
         keep == {i \in 0..(Len(t1.pages) - 1) :
                    \/ isAffix(t1.pages[i + 1])
                    \/ (IF task.side = "left" THEN i >= sourceIndex ELSE i <= sourceIndex)}
     IN IF ~tryRemoveTabPages(task.cand, veto)
          THEN Step(Refused(k, veto, "void"))
          ELSE StepBoth(Allowed(k, veto, [t1 EXCEPT !.pages = FilterIndexes(@, keep)], "void"),
                        updateKeepAlive(keepAlive, FilterIndexes(t1.pages, keep)))

\* removeOther(source), up to the await of tryRemoveTabPages
Tabs_removeOther(id) ==
  /\ TabsCanCall
  /\ LET task == Task("removeOther", id, "beforeRemove", tabs)
         needRemovePages == SelectSeq(tabs.pages, LAMBDA p : ~isAffix(p) /\ p.id # id)
     IN IF id = ""
          THEN Step(Spawn(TabsCalled, Returned(task, tabs, "void")))
          ELSE Step(Spawn(TabsCalled, [task EXCEPT !.cand = IdsOf(needRemovePages)]))
Tabs_removeOther_resume(k, veto) ==
  /\ Suspended(k, "removeOther", "beforeRemove")
  /\ veto \in Vetoes(k)
  /\ LET task == tabs.tasks[k]
         id == task.arg
         t1 == IF id # tabs.active THEN setActive(tabs, id) ELSE tabs
         kept == SelectSeq(t1.pages, LAMBDA p : isAffix(p) \/ p.id = id)
     IN IF ~tryRemoveTabPages(task.cand, veto)
          THEN Step(Refused(k, veto, "void"))
          ELSE StepBoth(Allowed(k, veto, [t1 EXCEPT !.pages = kept], "void"),
                        updateKeepAlive(keepAlive, kept))

\* removeAll(force): setActive(pages[0]) runs before the list is replaced
removeAllForced(t, force) ==
  [setActive(t, "") EXCEPT !.pages = <<>>]
removeAllNow(t, force) ==
  LET pages == IF force THEN <<>> ELSE SelectSeq(t.pages, LAMBDA p : isAffix(p)) IN
  [setActive(t, IdAt(pages, 0)) EXCEPT !.pages = pages]
Tabs_removeAll(force) ==
  /\ TabsCanCall
  /\ LET task == [Task("removeAll", "", "beforeRemove", tabs) EXCEPT !.force = force]
         t2 == removeAllNow(TabsCalled, TRUE)
     IN IF force
          THEN StepBoth(Spawn(t2, Returned(task, t2, "void")), updateKeepAlive(keepAlive, t2.pages))
          ELSE Step(Spawn(TabsCalled, [task EXCEPT !.cand = NonAffixIds(tabs.pages)]))
Tabs_removeAll_resume(k, veto) ==
  /\ Suspended(k, "removeAll", "beforeRemove")
  /\ veto \in Vetoes(k)
  /\ IF ~tryRemoveTabPages(tabs.tasks[k].cand, veto)
       THEN Step(Refused(k, veto, "void"))
       ELSE StepBoth(Allowed(k, veto, removeAllNow(tabs, FALSE), "void"),
                     updateKeepAlive(keepAlive, removeAllNow(tabs, FALSE).pages))

\* ---- navigations: the beforeResolve guard and the one-shot navigate hook ----
ReplaceResults == {"replace", "open", "cancel"}
TabSuperseded(n) == n < Len(tabs.navs)
unhook(t, n) == [t EXCEPT !.hooks = SelectSeq(@, LAMBDA h : h # n)]
Tabs_push(to) ==
  /\ TabsCanCall
  /\ to # tabs.route
  /\ Step(routerPush(TabsCalled, to))
\* the guard up to its first return or to the await of beforeReplace
Tabs_beforeResolve(n) ==
  /\ n \in 1..Len(tabs.navs)
  /\ tabs.navs[n].stage = "pending"
  /\ LET to == tabs.navs[n].to
         tabPage == createTabPage(to)
         same == fuzzy(tabs.pages, tabPage)
         hooked == [tabs EXCEPT !.hooks = Append(@, n), !.navs[n].hooked = TRUE,
                                !.navs[n].stage = "resolved"]
     IN IF ~hasMetadata(to)
          THEN Step([tabs EXCEPT !.navs[n].stage = "resolved"])
          ELSE IF tabs.mode = "replace" /\ Len(same) = 1 /\ ~exact(tabs.pages, tabPage)
            THEN Step([hooked EXCEPT !.navs[n].stage = "replacing",
                                     !.navs[n].old = same[1].id,
                                     !.navs[n].before = tabs.pages,
                                     !.navs[n].beforeActive = tabs.active])
            ELSE Step(hooked)
\* beforeReplace resolved
Tabs_beforeReplace(n, result) ==
  /\ n \in 1..Len(tabs.navs)
  /\ tabs.navs[n].stage = "replacing"
  /\ LET to == tabs.navs[n].to
         tabPage == createTabPage(to)
         replaced == setActive(updateTabPage(tabs, tabs.navs[n].old, to), tabPage.id)
         t2 == IF result = "cancel" THEN [unhook(tabs, n) EXCEPT !.navs[n].stage = "failed"]
               ELSE IF result = "open" THEN [tabs EXCEPT !.navs[n].stage = "resolved"]
               ELSE [unhook(replaced, n) EXCEPT !.navs[n].stage = "resolved"]
     IN StepBoth([t2 EXCEPT !.navs[n].result = result,
                            !.navs[n].after = t2.pages,
                            !.navs[n].afterActive = t2.active],
                 IF result \in {"cancel", "open"} THEN keepAlive
                 ELSE updateTabPageCache(keepAlive, tabs, tabs.navs[n].old, to))
\* the navigation is confirmed: 'sdk:router:navigate' runs every one-shot hook
\* registered so far, each calling addOne(to)
Tabs_commit(n) ==
  /\ n \in 1..Len(tabs.navs)
  /\ tabs.navs[n].stage = "resolved"
  /\ ~TabSuperseded(n)
  /\ LET to == tabs.navs[n].to
         collected == [h \in 1..Len(tabs.hooks) |->
                         [Task("addOne", to, "beforeAdd", tabs) EXCEPT !.nav = n]]
     IN StepBoth([tabs EXCEPT !.route = to, !.hooks = <<>>,
                              !.navs[n].stage = "committed",
                              !.navs[n].spawned = Len(tabs.hooks),
                              !.tasks = @ \o collected],
                 navigated(keepAlive, "forward", to, tabs.route))
\* the navigation fails after the guard (rejected by a later guard, or
\* cancelled by a newer navigation) or is cancelled before it
Tabs_navFail(n) ==
  /\ n \in 1..Len(tabs.navs)
  /\ \/ tabs.navs[n].stage = "resolved"
     \/ tabs.navs[n].stage = "pending" /\ TabSuperseded(n)
  /\ Step([tabs EXCEPT !.navs[n].stage = "failed"])

\* ---- the instances a run starts from ----
\* no tab yet, or the tabs collected by visiting /home, /p?x=1 and /u?x=1, or
\* /p?x=1, /home and /p?x=2, with any of them active and shown
TabSessions == {"empty", "opened", "mixed"}
TabModes == {"normal", "replace"}
SessionPaths(session) ==
  IF session = "empty" THEN <<>>
  ELSE IF session = "opened" THEN <<"/home", "/p?x=1", "/u?x=1">>
  ELSE <<"/p?x=1", "/home", "/p?x=2">>
InitTabs ==
  /\ InitHost("fresh")
  /\ hasIdentify = FALSE
  /\ EnhanceUnused
  /\ PluginUnused
  /\ SdkUnused
  /\ \E session \in TabSessions, mode \in TabModes :
       LET paths == SessionPaths(session)
           pages == [i \in 1..Len(paths) |-> createTabPage(paths[i])]
       IN IF paths = <<>>
            THEN tabs = NewTabs(<<>>, "", "/login", mode)
            ELSE \E i \in 1..Len(paths) : tabs = NewTabs(pages, pages[i].id, paths[i], mode)

NextTabs ==
  \/ \E path \in TabRoutes : Tabs_addOne(path)
  \/ \E k \in 1..Len(tabs.tasks), allow \in BOOLEAN : Tabs_addOne_beforeAdd(k, allow)
  \/ \E k \in 1..Len(tabs.tasks) : Tabs_addOne_componentName(k)
  \/ \E id \in TabIds \cup {""} : Tabs_setActive(id)
  \/ \E id \in TabIds, fullPath \in UpdatePaths : Tabs_updateTabPage(id, fullPath)
  \/ \E id \in TabIds : Tabs_removeOne(id)
  \/ \E k \in 1..Len(tabs.tasks), veto \in 0..1 : Tabs_removeOne_resume(k, veto)
  \/ \E side \in Sides, id \in TabIds \cup {""} : Tabs_removeSide(side, id)
  \/ \E k \in 1..Len(tabs.tasks), veto \in 0..3 : Tabs_removeSide_resume(k, veto)
  \/ \E id \in TabIds \cup {""} : Tabs_removeOther(id)
  \/ \E k \in 1..Len(tabs.tasks), veto \in 0..3 : Tabs_removeOther_resume(k, veto)
  \/ \E force \in BOOLEAN : Tabs_removeAll(force)
  \/ \E k \in 1..Len(tabs.tasks), veto \in 0..3 : Tabs_removeAll_resume(k, veto)
  \/ \E to \in TabRoutes : Tabs_push(to)
  \/ \E n \in 1..Len(tabs.navs) : Tabs_beforeResolve(n)
  \/ \E n \in 1..Len(tabs.navs), result \in ReplaceResults : Tabs_beforeReplace(n, result)
  \/ \E n \in 1..Len(tabs.navs) : Tabs_commit(n)
  \/ \E n \in 1..Len(tabs.navs) : Tabs_navFail(n)

SpecTabs == InitTabs /\ [][NextTabs]_vars

\* ---- the Tabs plugin registered together with the KeepAlive plugin ----
\* both plugins are installed with their default options (auto mode on): the
\* first read of _keepAlive, in the tail of the first addOne that pushed a tab,
\* turned the KeepAlive plugin's auto mode off and every tab opened since had
\* its component name added
CachedNames(pages) ==
  {componentName(pages[i]) : i \in {j \in 1..Len(pages) : isKeepAlive(pages[j])}} \ {""}
InitTabsCache ==
  /\ InitHost("fresh")
  /\ hasIdentify = FALSE
  /\ EnhanceUnused
  /\ PluginUnused
  /\ scroller = NoPlugin /\ sdk = NoPlugin /\ ids = NoIds /\ MoreUnused
  /\ \E session \in TabSessions, mode \in {"normal"} :
       LET paths == SessionPaths(session)
           pages == [i \in 1..Len(paths) |-> createTabPage(paths[i])]
       IN IF paths = <<>>
            THEN /\ tabs = NewTabs(<<>>, "", "/login", mode)
                 /\ keepAlive = NewKeepAlive({}, TRUE, 0, "/login")
            ELSE \E i \in 1..Len(paths) :
                 /\ tabs = NewTabs(pages, pages[i].id, paths[i], mode)
                 /\ keepAlive = NewKeepAlive(CachedNames(pages), FALSE, 0, paths[i])
NextTabsCache ==
  \/ \E path \in TabRoutes : Tabs_addOne(path)
  \/ \E k \in 1..Len(tabs.tasks), allow \in BOOLEAN : Tabs_addOne_beforeAdd(k, allow)
  \/ \E k \in 1..Len(tabs.tasks) : Tabs_addOne_componentName(k)
  \/ \E id \in TabIds, fullPath \in UpdatePaths : Tabs_updateTabPage(id, fullPath)
  \/ \E id \in TabIds : Tabs_removeOne(id)
  \/ \E k \in 1..Len(tabs.tasks), veto \in 0..1 : Tabs_removeOne_resume(k, veto)
  \/ \E id \in TabIds \cup {""} : Tabs_removeOther(id)
  \/ \E k \in 1..Len(tabs.tasks), veto \in 0..3 : Tabs_removeOther_resume(k, veto)
  \/ \E to \in TabRoutes : Tabs_push(to)
  \/ \E n \in 1..Len(tabs.navs) : Tabs_beforeResolve(n)
  \/ \E n \in 1..Len(tabs.navs) : Tabs_commit(n)
  \/ \E k \in 1..Len(keepAlive.jobs) : KeepAlive_set(k)
  \/ \E k \in 1..Len(keepAlive.jobs) : \E record \in keepAlive.jobs[k].pending, valid \in BOOLEAN :
       KeepAlive_settle(k, record, valid)
SpecTabsCache == InitTabsCache /\ [][NextTabsCache]_vars

\* ------------------------------------------------------------------------
\* Properties of the Tabs plugin
\* ------------------------------------------------------------------------
\* every call made on the instance has returned and every navigation is over
TabsSettled ==
  /\ \A k \in 1..Len(tabs.tasks) : tabs.tasks[k].pc = "done"
  /\ \A n \in 1..Len(tabs.navs) : tabs.navs[n].stage \in {"committed", "failed"}

\* C13: the tab list never holds two tabs with the same id
C13_UniqueIds ==
  \A i, j \in 1..Len(tabs.pages) : i # j => tabs.pages[i].id # tabs.pages[j].id

\* C14: once every asynchronous step has settled, the active id is '' or the
\* id of a tab of the list
C14_ActiveInList ==
  TabsSettled => (tabs.active = "" \/ tabs.active \in IdSet(tabs.pages))

\* the calls of removeSide, removeOther and removeAll(false) that have returned
\* and that no other call disturbed
BulkOps == {"removeSide", "removeOther", "removeAll"}
BulkReturned(k) ==
  /\ tabs.tasks[k].op \in BulkOps
  /\ ~tabs.tasks[k].force
  /\ tabs.tasks[k].pc = "done"
  /\ tabs.tasks[k].alone

\* C15: a bulk removal in which beforeRemove refused a candidate leaves the
\* tab list as it was before the call
C15_AllOrNothing ==
  \A k \in 1..Len(tabs.tasks) :
    (BulkReturned(k) /\ tabs.tasks[k].veto > 0) => tabs.tasks[k].after = tabs.tasks[k].before
\* a refusal of the first of several candidates
C15_Witness ==
  \E k \in 1..Len(tabs.tasks) :
    /\ BulkReturned(k)
    /\ tabs.tasks[k].veto = 1
    /\ Len(tabs.tasks[k].cand) >= 2
    /\ tabs.tasks[k].after = tabs.tasks[k].before

\* C16: after removeAll(false), removeOther or removeSide the affixed tabs are
\* those of before the call, in the same order
Affixed(pages) == SelectSeq(pages, LAMBDA p : isAffix(p))
C16_AffixKept ==
  \A k \in 1..Len(tabs.tasks) :
    BulkReturned(k) => Affixed(tabs.tasks[k].after) = Affixed(tabs.tasks[k].before)
\* a removal that took tabs away on both sides of an affixed one
C16_Witness ==
  \E k \in 1..Len(tabs.tasks) :
    /\ BulkReturned(k)
    /\ tabs.tasks[k].veto = 0
    /\ Len(tabs.tasks[k].before) = 3
    /\ isAffix(tabs.tasks[k].before[2])
    /\ tabs.tasks[k].after = <<tabs.tasks[k].before[2]>>

\* C17: removeOne returns true and changes nothing for an absent or affixed
\* tab, returns false and changes nothing when beforeRemove refuses, and
\* otherwise removes that tab, returns true and, if it was active, activates
\* the tab before it, else the tab after it, else none
Position(pages, id) == findIndex(pages, id) + 1
Without(pages, i) == SubSeq(pages, 1, i - 1) \o SubSeq(pages, i + 1, Len(pages))
Neighbour(pages, i) ==
  IF i > 1 THEN pages[i - 1].id ELSE IF i < Len(pages) THEN pages[i + 1].id ELSE ""
Unchanged(task) == task.after = task.before /\ task.afterActive = task.beforeActive
C17_RemoveOne ==
  \A k \in 1..Len(tabs.tasks) :
    LET task == tabs.tasks[k]
        i == Position(task.before, task.arg)
    IN (task.op = "removeOne" /\ task.pc = "done" /\ task.alone) =>
         IF i = 0 \/ isAffix(task.before[i])
           THEN task.ret = "true" /\ Unchanged(task)
           ELSE IF task.veto > 0
             THEN task.ret = "false" /\ Unchanged(task)
             ELSE /\ task.ret = "true"
                  /\ task.after = Without(task.before, i)
                  /\ task.arg = task.beforeActive
                       => task.afterActive = Neighbour(task.before, i)
\* the active tab, which has a tab on either side, has been removed
C17_Witness ==
  \E k \in 1..Len(tabs.tasks) :
    LET task == tabs.tasks[k]
        i == Position(task.before, task.arg)
    IN /\ task.op = "removeOne" /\ task.pc = "done" /\ task.alone
       /\ task.ret = "true"
       /\ i = 2 /\ Len(task.before) = 3
       /\ task.arg = task.beforeActive
       /\ task.afterActive = task.before[1].id
       /\ Len(task.after) = 2

\* C18: addOne leaves the list and the active id as they were when the route
\* has no page metadata or when beforeAdd resolves falsy
C18_AddOneSkips ==
  \A k \in 1..Len(tabs.tasks) :
    LET task == tabs.tasks[k] IN
    (task.op = "addOne" /\ task.pc = "done" /\ task.alone
       /\ (~hasMetadata(task.arg) \/ task.veto > 0)) => Unchanged(task)

\* C19: a tab added for a page at x=1 and then one for the same page at x=2
\* leave two distinct tabs when the page is not unique, and one tab, whose
\* fullPath is that of the second, when it is unique
TabsOfPage(pages, pageId) == SelectSeq(pages, LAMBDA p : p.pageId = pageId)
AddedInTurn(j, k) ==
  /\ j < k
  /\ \A m \in {j, k} :
       /\ tabs.tasks[m].op = "addOne" /\ tabs.tasks[m].pc = "done"
       /\ tabs.tasks[m].alone /\ tabs.tasks[m].veto = 0
  /\ tabs.tasks[k].before = tabs.tasks[j].after
  /\ hasMetadata(tabs.tasks[j].arg)
  /\ PageOf(tabs.tasks[j].arg) = PageOf(tabs.tasks[k].arg)
  /\ tabs.tasks[j].arg # tabs.tasks[k].arg
  /\ TabsOfPage(tabs.tasks[j].before, PageOf(tabs.tasks[j].arg).id) = <<>>
C19_SamePageTwice ==
  \A j, k \in 1..Len(tabs.tasks) :
    AddedInTurn(j, k) =>
      LET page == PageOf(tabs.tasks[j].arg)
          same == TabsOfPage(tabs.tasks[k].after, page.id)
      IN IF page.isUniq
           THEN Len(same) = 1 /\ same[1].fullPath = tabs.tasks[k].arg
           ELSE /\ Len(same) = 2
                /\ same[1].id # same[2].id
                /\ {same[1].fullPath, same[2].fullPath} = {tabs.tasks[j].arg, tabs.tasks[k].arg}

\* a navigation whose beforeReplace has answered, in a run where that
\* navigation is the only call made on the router or the instance
Asked(n) == tabs.navs[n].result # ""
OnlyNavigation ==
  /\ tabs.ops = 1
  /\ \A k \in 1..Len(tabs.tasks) : tabs.tasks[k].nav # 0
NewTab(n) == createTabPage(tabs.navs[n].to)
CollectedFor(n) == {k \in 1..Len(tabs.tasks) : tabs.tasks[k].nav = n /\ tabs.tasks[k].pc = "done"}
GuardChangedNothing(n) ==
  /\ tabs.navs[n].after = tabs.navs[n].before
  /\ tabs.navs[n].afterActive = tabs.navs[n].beforeActive
\* 'cancel': the navigation fails, nothing changes and nothing is collected
Cancelled(n) ==
  /\ tabs.navs[n].stage = "failed"
  /\ GuardChangedNothing(n)
  /\ tabs.tasks = <<>>
  /\ tabs.pages = tabs.navs[n].before
  /\ tabs.active = tabs.navs[n].beforeActive
\* 'open': the guard changes nothing, the navigation may commit, and its
\* addOne, beforeAdd permitting, leaves the list as added says
Opened(n, added(_)) ==
  /\ GuardChangedNothing(n)
  /\ tabs.navs[n].stage \in {"resolved", "committed", "failed"}
  /\ tabs.navs[n].stage = "committed" => tabs.navs[n].spawned = 1
  /\ \A k \in CollectedFor(n) :
       tabs.tasks[k].veto = 0 => tabs.tasks[k].after = added(n)
\* any other answer: the old tab has the data of the new one, the new tab is
\* active, and the list stays so whatever commits
Replaced(n) ==
  LET i == Position(tabs.navs[n].before, tabs.navs[n].old) IN
  /\ i > 0
  /\ tabs.navs[n].after = [tabs.navs[n].before EXCEPT ![i] = NewTab(n)]
  /\ tabs.navs[n].afterActive = NewTab(n).id
  /\ tabs.pages = tabs.navs[n].after
  /\ tabs.active = tabs.navs[n].afterActive
Alongside(n) == Append(tabs.navs[n].before, NewTab(n))
AlongsideUnlessUniq(n) ==
  IF NewTab(n).isUniq THEN tabs.navs[n].before ELSE Alongside(n)
Decided(n, added(_)) ==
  IF tabs.navs[n].result = "cancel" THEN Cancelled(n)
  ELSE IF tabs.navs[n].result = "open" THEN Opened(n, added)
  ELSE Replaced(n)

MaxIndex == 2
NullValue == [type |-> "null"]
RouteObject(path) == [type |-> "route", fullPath |-> path, meta |-> getMetadata(path)]
TabObject(path) == [type |-> "tab"] @@ createTabPage(path)
Resolvables ==
  {NullValue}
    \cup {[type |-> "number", index |-> i] : i \in 0..MaxIndex}
    \cup {[type |-> "string", text |-> id] : id \in TabIds}
    \cup {RouteObject(path) : path \in TabRoutes}
    \cup {TabObject(path) : path \in TabRoutes}
resolveId(t, value) ==
  IF value.type = "null" THEN ""
  ELSE IF value.type = "number" THEN IdAt(t.pages, value.index)
  ELSE IF value.type = "string" THEN value.text
  ELSE IF "pageId" \in DOMAIN value THEN value.id
  ELSE generateID(value.meta.id, value.fullPath, value.meta.isUniq)

\* two values are handed to resolveId of a Tabs instance with some tabs open
InitIds ==
  /\ InitHost("fresh")
  /\ hasIdentify = FALSE
  /\ EnhanceUnused
  /\ PluginUnused
  /\ keepAlive = NoPlugin /\ scroller = NoPlugin /\ sdk = NoPlugin /\ MoreUnused
  /\ \E session \in TabSessions :
       LET paths == SessionPaths(session)
           pages == [i \in 1..Len(paths) |-> createTabPage(paths[i])]
       IN tabs = NewTabs(pages, IdAt(pages, 0), "/login", "normal")
  /\ \E a \in Resolvables, b \in Resolvables : ids = [resolved |-> FALSE, a |-> a, b |-> b]
Ids_resolveId ==
  /\ ~ids.resolved
  /\ ids' = [ids EXCEPT !.resolved = TRUE] @@
              [idA |-> resolveId(tabs, ids.a), idB |-> resolveId(tabs, ids.b)]
  /\ UNCHANGED <<hostVars, hasIdentify, enhanceVars, pluginVars, tabs, keepAlive, scroller, sdk, moreVars>>
NextIds == Ids_resolveId
SpecIds == InitIds /\ [][NextIds]_vars

\* the page identity of a route-identity object
IsIdentity(value) == value.type \in {"route", "tab"}
PageIdOf(value) == IF value.type = "tab" THEN value.pageId ELSE value.meta.id
UniqOf(value) == IF value.type = "tab" THEN value.isUniq ELSE value.meta.isUniq
SamePage ==
  /\ ids.resolved
  /\ IsIdentity(ids.a) /\ IsIdentity(ids.b)
  /\ PageIdOf(ids.a) = PageIdOf(ids.b)

\* C21: two route-identity objects (a route or a tab) of the same page resolve
\* to the same id when the page is unique, whatever their fullPath, and when
\* the page is not unique to the same id exactly when their fullPath is the same
C21_IdOfPageIdentity ==
  SamePage =>
    IF UniqOf(ids.a) = TRUE
      THEN ids.idA = ids.idB
      ELSE (ids.idA = ids.idB) <=> (ids.a.fullPath = ids.b.fullPath)
\* a route and a tab of the unique page with different fullPath got one id
C21_Witness ==
  /\ SamePage
  /\ ids.a.type = "route" /\ ids.b.type = "tab"
  /\ UniqOf(ids.a) = TRUE
  /\ ids.a.fullPath # ids.b.fullPath
  /\ ids.idA = ids.idB


\* ------------------------------------------------------------------------
\* Properties of the Tabs plugin driving the KeepAlive plugin
\* ------------------------------------------------------------------------
KeepAliveSettled == \A k \in 1..Len(keepAlive.jobs) : keepAlive.jobs[k].pc = "done"

\* C22: once every call on the Tabs instance and every promise chain of the
\* KeepAlive plugin has settled, the cache holds exactly the component names
\* of the tabs in the list that are kept alive
C22_CacheMatchesTabs ==
  (keepAlive.installed /\ TabsSettled /\ KeepAliveSettled)
    => keepAlive.values = CachedNames(tabs.pages)


\* C23: with the Tabs plugin installed next to the KeepAlive plugin, whenever
\* the application navigates or calls the Tabs instance the KeepAlive plugin is
\* out of auto mode, and its handler of 'sdk:router:navigate' never starts an
\* addition or a removal
C23_TakeoverDisablesAuto ==
  keepAlive.installed =>
    /\ (tabs.ops > 0 \/ Len(tabs.navs) > 0) => ~keepAlive.isAuto
    /\ \A k \in 1..Len(keepAlive.jobs) : keepAlive.jobs[k].op # "navigate"


\* ------------------------------------------------------------------------
\* Properties of the KeepAlive plugin
\* ------------------------------------------------------------------------
\* the handler k of a navigation has settled and no other handler or call
\* ran while it was pending
HandledAlone(k) ==
  /\ keepAlive.jobs[k].op = "navigate"
  /\ keepAlive.jobs[k].pc = "done"
  /\ keepAlive.jobs[k].alone
KeepRecords == UNION {Elements(matched(path)) : path \in KeepRoutes}
PredicatePassed(k, phase) ==
  {record \in KeepRecords : <<phase, record>> \in keepAlive.jobs[k].passed}
PredicateAsked(k, phase) ==
  {record \in KeepRecords :
     <<phase, record>> \in keepAlive.jobs[k].passed \cup keepAlive.jobs[k].failed}
OriginOnly(k) ==
  {record \in Elements(matched(keepAlive.jobs[k].from)) :
     record \notin Elements(matched(keepAlive.jobs[k].to))}

\* C24: in auto mode, when the handler of a navigation has settled: every
\* matched record of the target was asked beforeRouteAdd and the names of those
\* that passed are cached; for a backward navigation exactly the records
\* matched by the origin and not by the target were asked beforeRouteRemove
\* and the names of those that passed are not cached unless a record of the
\* target that passed has the same name; for another direction no record is
\* removed; and nothing else changed, so a record whose predicate resolved
\* falsy changed nothing
C24_AutoCollectAndClean ==
  \A k \in 1..Len(keepAlive.jobs) :
    HandledAlone(k) =>
      LET job == keepAlive.jobs[k] IN
      /\ PredicateAsked(k, "add") = Elements(matched(job.to))
      /\ PredicateAsked(k, "remove") = IF job.direction = "backward" THEN OriginOnly(k) ELSE {}
      /\ NamesOf(PredicatePassed(k, "add")) \subseteq job.after
      /\ \A record \in PredicatePassed(k, "remove") :
           ComponentNameOf(record) \in job.after
             => ComponentNameOf(record) \in NamesOf(PredicatePassed(k, "add"))
      /\ job.after = (job.before \ NamesOf(PredicatePassed(k, "remove"))) \cup NamesOf(PredicatePassed(k, "add"))
\* a backward navigation from /a to /t settled alone: the layout was removed,
\* and the name shared by the records "a" and "t" was removed and added again
C24_Witness ==
  \E k \in 1..Len(keepAlive.jobs) :
    /\ HandledAlone(k)
    /\ keepAlive.jobs[k].direction = "backward"
    /\ keepAlive.jobs[k].from = "/a" /\ keepAlive.jobs[k].to = "/t"
    /\ PredicatePassed(k, "remove") = {"layout", "a"}
    /\ PredicatePassed(k, "add") = {"t"}
    /\ keepAlive.jobs[k].before = {"Layout", "A"}
    /\ keepAlive.jobs[k].after = {"A"}


\* C25: a run of the eviction leaves in the cache exactly the names it held
\* that were last added less than staleTime ago
C25_EvictsTheStale ==
  keepAlive.installed /\ keepAlive.run.done =>
    keepAlive.run.after =
      {name \in keepAlive.run.before :
         keepAlive.run.now - keepAlive.run.added[name] < keepAlive.staleTime}

\* ======================================================================
\* The RouterScroller plugin (class RouterScroller)
\* ======================================================================
ScrollRoutes == {"/a", "/b", "/c"}
\* options.selectors in the order of Object.entries: a selector no element of
\* the page matches, the window, whose handler is of any kind, and a list
SelectorOrder == <<"#gone", "window", ".list">>
Selectors == Elements(SelectorOrder)
querySelector(selector) == selector # "#gone"
HandlerKinds == {"true", "false", "function"}
\* a scroll offset (top and left are handled alike: one number stands for both)
MaxScroll == 1
Offsets == 0..MaxScroll
\* no position: position?.[selector] reads undefined
NoPosition == 0 - 1
\* what a function handler resolves to: a falsy value, true, or a position
NoResult == [kind |-> "none"]
HandlerResults ==
  {[kind |-> "falsy"], [kind |-> "true"]} \cup {[kind |-> "position", y |-> y] : y \in Offsets}

\* a RouterScroller instance after install: options, isAuto, the positions
\* map, the elements' scroll offsets, the browser history with the position
\* the Router plugin recorded last, the navigations and the restorations
NewScroller(handlers, scrollOnlyBackward, isAuto) ==
  [installed |-> TRUE, isAuto |-> isAuto, handlers |-> handlers,
   scrollOnlyBackward |-> scrollOnlyBackward,
   positions |-> EmptyMap,
   offsets |-> [selector \in {"window", ".list"} |-> 0],
   route |-> "/a", entries |-> <<"/a">>, index |-> 1, latestPosition |-> 0,
   navs |-> <<>>, jobs |-> <<>>, ops |-> 0,
   \* every element.scrollTo made by applyPositions, and every selector skipped
   log |-> <<>>]

\* capturePositions(): the offsets of the selectors whose element exists
capturePositions(sc) ==
  [selector \in {s \in Selectors : querySelector(s)} |-> sc.offsets[selector]]
\* position?.[selector]
SavedPosition(position, selector) ==
  IF selector \in DOMAIN position THEN position[selector] ELSE NoPosition
\* the position a boolean handler leaves in pos
booleanPositionAlways(handler, saved, scrollOnlyBackward, direction) ==
  saved
booleanPosition(handler, saved, scrollOnlyBackward, direction) ==
  IF handler = "true" /\ scrollOnlyBackward /\ direction # "backward" THEN NoPosition
  ELSE saved
\* element.scrollTo({ behavior, ...(pos || { top: 0, left: 0 }) })
scrollTo(sc, k, selector, saved, result, position) ==
  LET y == IF position = NoPosition THEN 0 ELSE position IN
  [sc EXCEPT !.offsets[selector] = y,
             !.log = Append(@, [job |-> k, selector |-> selector,
                                handler |-> sc.handlers[selector], saved |-> saved,
                                direction |-> sc.jobs[k].direction, result |-> result,
                                scrolled |-> TRUE, y |-> y])]
skipped(sc, k, selector, saved, result) ==
  [sc EXCEPT !.log = Append(@, [job |-> k, selector |-> selector,
                                handler |-> sc.handlers[selector], saved |-> saved,
                                direction |-> sc.jobs[k].direction, result |-> result,
                                scrolled |-> FALSE, y |-> 0])]
\* applyPositions from the i-th selector on, up to the next await or the end
RECURSIVE applyPositions(_, _, _)
applyPositions(sc, k, i) ==
  IF i > Len(SelectorOrder) THEN [sc EXCEPT !.jobs[k].pc = "done"]
  ELSE LET selector == SelectorOrder[i]
           saved == SavedPosition(sc.jobs[k].position, selector)
       IN IF ~querySelector(selector) THEN applyPositions(sc, k, i + 1)
          ELSE IF sc.handlers[selector] = "function"
            THEN [sc EXCEPT !.jobs[k].pc = "handler", !.jobs[k].i = i]
            ELSE applyPositions(
                   scrollTo(sc, k, selector, saved, NoResult,
                            booleanPosition(sc.handlers[selector], saved,
                                            sc.scrollOnlyBackward, sc.jobs[k].direction)),
                   k, i + 1)
\* the function handler of the i-th selector resolved
handlerResolved(sc, k, result) ==
  LET i == sc.jobs[k].i
      selector == SelectorOrder[i]
      saved == SavedPosition(sc.jobs[k].position, selector)
  IN IF result.kind = "falsy" THEN applyPositions(skipped(sc, k, selector, saved, result), k, i + 1)
     ELSE applyPositions(
            scrollTo(sc, k, selector, saved, result, IF result.kind = "true" THEN saved ELSE result.y),
            k, i + 1)
Restoration(sc, n, to, from, direction) ==
  [nav |-> n, to |-> to, from |-> from, direction |-> direction,
   position |-> IF to \in DOMAIN sc.positions THEN sc.positions[to] ELSE EmptyMap,
   pc |-> "tick", i |-> 0,
   \* isManual, and whether no navigation was in flight when it was requested
   isManual |-> FALSE, quiet |-> TRUE]

MaxScrollNavs == 3
MaxScrollOps == 1
ScrollFrame == UNCHANGED <<hostVars, hasIdentify, enhanceVars, pluginVars, tabs, keepAlive, sdk, ids, moreVars>>
NoNavigation(sc) == \A n \in 1..Len(sc.navs) : sc.navs[n].stage = "done"
\* a nextTick callback is a microtask: it runs before the next event, timer
\* or navigation step
NoTick(sc) == \A k \in 1..Len(sc.jobs) : sc.jobs[k].pc # "tick"
\* the user scrolls an element
Scroller_scroll(selector, y) ==
  /\ scroller.installed
  /\ NoTick(scroller)
  /\ scroller.ops < MaxScrollOps
  /\ scroller.offsets[selector] # y
  /\ scroller' = [scroller EXCEPT !.offsets[selector] = y, !.ops = @ + 1]
  /\ ScrollFrame
\* router.push(to)
Scroller_push(to) ==
  /\ scroller.installed
  /\ NoTick(scroller)
  /\ NoNavigation(scroller)
  /\ Len(scroller.navs) < MaxScrollNavs
  /\ to # scroller.route
  /\ scroller' = [scroller EXCEPT !.navs = Append(@, [to |-> to, from |-> scroller.route,
                                                      kind |-> "push", stage |-> "pending",
                                                      captured |-> EmptyMap])]
  /\ ScrollFrame
\* the browser's back button: the history entry has changed when the
\* router's popstate listener starts the navigation
Scroller_back ==
  /\ scroller.installed
  /\ NoTick(scroller)
  /\ NoNavigation(scroller)
  /\ Len(scroller.navs) < MaxScrollNavs
  /\ scroller.index > 1
  /\ scroller' = [scroller EXCEPT
                    !.index = @ - 1,
                    !.navs = Append(@, [to |-> scroller.entries[scroller.index - 1],
                                        from |-> scroller.route, kind |-> "pop",
                                        stage |-> "pending", captured |-> EmptyMap])]
  /\ ScrollFrame
\* the guard install registers with router.beforeResolve
Scroller_beforeResolve(n) ==
  /\ scroller.installed
  /\ n \in 1..Len(scroller.navs)
  /\ NoTick(scroller)
  /\ scroller.navs[n].stage = "pending"
  /\ LET nav == scroller.navs[n]
         stateCurrent == scroller.entries[scroller.index]
         captured == capturePositions(scroller)
     IN scroller' =
          IF stateCurrent = nav.to \/ ~scroller.isAuto
            THEN [scroller EXCEPT !.navs[n].stage = "resolved"]
            ELSE [scroller EXCEPT !.navs[n].stage = "resolved",
                                  !.navs[n].captured = captured,
                                  !.positions = MapSet(@, nav.from, captured)]
  /\ ScrollFrame
\* the navigation is confirmed: the Router plugin's afterEach identifies the
\* direction, dispatches 'sdk:router:navigate' and records the position; the
\* handler install registered defers applyPositions to the next tick
Scroller_afterEach(n) ==
  /\ scroller.installed
  /\ n \in 1..Len(scroller.navs)
  /\ NoTick(scroller)
  /\ scroller.navs[n].stage = "resolved"
  /\ LET nav == scroller.navs[n]
         moved == IF nav.kind = "push"
                    THEN [scroller EXCEPT
                            !.entries = Append(SubSeq(@, 1, scroller.index), nav.to),
                            !.index = @ + 1]
                    ELSE scroller
         currentPosition == moved.index - 1
         direction == defaultIdentifyDirection(scroller.latestPosition, currentPosition)
         shown == [moved EXCEPT !.route = nav.to, !.navs[n].stage = "done",
                                !.latestPosition = currentPosition]
     IN scroller' =
          IF ~scroller.isAuto THEN shown
          ELSE [shown EXCEPT !.jobs = Append(@, Restoration(scroller, n, nav.to, nav.from, direction))]
  /\ ScrollFrame
\* the nextTick callback runs applyPositions
Scroller_nextTick(k) ==
  /\ scroller.installed
  /\ k \in 1..Len(scroller.jobs)
  /\ scroller.jobs[k].pc = "tick"
  /\ scroller' = applyPositions(scroller, k, 1)
  /\ ScrollFrame
\* a function handler resolves
Scroller_handler(k, result) ==
  /\ scroller.installed
  /\ k \in 1..Len(scroller.jobs)
  /\ NoTick(scroller)
  /\ scroller.jobs[k].pc = "handler"
  /\ scroller' = handlerResolved(scroller, k, result)
  /\ ScrollFrame

\* the application starts on /a with nothing scrolled
InitScroller ==
  /\ InitHost("fresh")
  /\ hasIdentify = FALSE
  /\ EnhanceUnused
  /\ PluginUnused
  /\ TabsUnused
  /\ keepAlive = NoPlugin /\ sdk = NoPlugin /\ ids = NoIds /\ MoreUnused
  /\ \E kind \in HandlerKinds, scrollOnlyBackward \in BOOLEAN, isAuto \in BOOLEAN :
       scroller = NewScroller([selector \in Selectors |->
                                 IF selector = "window" THEN kind
                                 ELSE "true"],
                              scrollOnlyBackward, isAuto)
NextScroller ==
  \/ \E selector \in {"window", ".list"}, y \in Offsets : Scroller_scroll(selector, y)
  \/ \E to \in ScrollRoutes : Scroller_push(to)
  \/ Scroller_back
  \/ \E n \in 1..Len(scroller.navs) : Scroller_beforeResolve(n)
  \/ \E n \in 1..Len(scroller.navs) : Scroller_afterEach(n)
  \/ \E k \in 1..Len(scroller.jobs) : Scroller_nextTick(k)
  \/ \E k \in 1..Len(scroller.jobs), result \in HandlerResults : Scroller_handler(k, result)
SpecScroller == InitScroller /\ [][NextScroller]_vars

\* ------------------------------------------------------------------------
\* Properties of the RouterScroller plugin
\* ------------------------------------------------------------------------
SavedOrZero(saved) == IF saved = NoPosition THEN 0 ELSE saved

\* C26: whenever applyPositions reaches a selector whose element exists: a
\* handler true scrolls to the saved position, or to 0 when none is saved or
\* when scrollOnlyBackward is set and the direction is not backward; a handler
\* false scrolls to 0; a function handler skips the selector on a falsy
\* result, scrolls to the saved position (or 0) on true and to the result
\* otherwise
C26_ApplyPositions ==
  scroller.installed =>
    \A e \in 1..Len(scroller.log) :
      LET entry == scroller.log[e] IN
      IF entry.handler = "true"
        THEN /\ entry.scrolled
             /\ entry.y = IF scroller.scrollOnlyBackward /\ entry.direction # "backward"
                            THEN 0 ELSE SavedOrZero(entry.saved)
      ELSE IF entry.handler = "false"
        THEN entry.scrolled /\ entry.y = 0
      ELSE IF entry.result.kind = "falsy" THEN ~entry.scrolled
      ELSE IF entry.result.kind = "true" THEN entry.scrolled /\ entry.y = SavedOrZero(entry.saved)
      ELSE entry.scrolled /\ entry.y = entry.result.y


\* scrollOnlyBackward is set, the handler of the window is true, and the
\* application went forward twice and then back once
TwoForwardOneBack ==
  /\ scroller.installed
  /\ scroller.isAuto
  /\ scroller.scrollOnlyBackward
  /\ scroller.handlers["window"] = "true"
  /\ Len(scroller.navs) = 3
  /\ scroller.navs[1].kind = "push" /\ scroller.navs[2].kind = "push"
  /\ scroller.navs[3].kind = "pop"
\* every scroll of the window that the restoration of navigation n made went to y
WindowRestoredTo(n, y) ==
  \A e \in 1..Len(scroller.log) :
    (scroller.log[e].selector = "window" /\ scroller.jobs[scroller.log[e].job].nav = n)
      => scroller.log[e].scrolled /\ scroller.log[e].y = y
WindowRestored(n) ==
  \E e \in 1..Len(scroller.log) :
    scroller.log[e].selector = "window" /\ scroller.jobs[scroller.log[e].job].nav = n

\* C27 as stated: each forward navigation restores the window to 0 and the
\* backward navigation restores the position captured before the first
\* forward navigation
C27_BackwardRestoresFirstCapture ==
  TwoForwardOneBack =>
    /\ WindowRestoredTo(1, 0)
    /\ WindowRestoredTo(2, 0)
    /\ WindowRestoredTo(3, scroller.navs[1].captured["window"])
\* C27, amended: each forward navigation restores the window to 0 and the
\* backward navigation restores the position captured before the second
\* forward navigation, the one that left the route it returns to
C27_BackwardRestoresSecondCapture ==
  TwoForwardOneBack =>
    /\ WindowRestoredTo(1, 0)
    /\ WindowRestoredTo(2, 0)
    /\ WindowRestoredTo(3, scroller.navs[2].captured["window"])
\* the window was scrolled on the second route only, and going back restored
\* that offset
C27_Witness ==
  /\ TwoForwardOneBack
  /\ WindowRestored(1) /\ WindowRestored(2) /\ WindowRestored(3)
  /\ scroller.navs[1].captured["window"] = 0
  /\ scroller.navs[2].captured["window"] = 1
  /\ WindowRestoredTo(3, 1)

\* ======================================================================
\* The AppSDK (class AppSDK)
\* ======================================================================
\* the plugins an application may register: install() returns an uninstaller
\* or not, and the plugin has an uninstall() method or not
PluginIds == {"keepAlive", "tabs"}
PluginKinds == [id : PluginIds, returnsFn : BOOLEAN, hasUninstall : BOOLEAN]
NewPlugin(kind) == kind @@ [_un |-> "none"]
\* an AppSDK instance: isInitialed, app/router, _plugins, the Router instances
\* the getter _builtinPlugins has created and the one whose _un is set, the
\* plugins whose 'sdk:cleanup' hook is registered, and the calls made on it
NewSDK(plugins, isInitialed, hooks) ==
  [installed |-> TRUE, isInitialed |-> isInitialed, hasApp |-> isInitialed,
   plugins |-> plugins, routers |-> 0, routerUn |-> 0, hooks |-> hooks, ops |-> 0,
   \* what the instance did, in order, and the stores as the last cleanup left them
   log |-> <<>>, cleaned |-> [done |-> FALSE]]
Event(ev, id, how) == [ev |-> ev, id |-> id, how |-> how, returnsFn |-> FALSE, hasUninstall |-> FALSE]
\* plugin.install(sdk) ran, for a plugin of the given kind
Installed(kind) ==
  [ev |-> "install", id |-> kind.id, how |-> "",
   returnsFn |-> kind.returnsFn, hasUninstall |-> kind.hasUninstall]
Logged(s, event) == [s EXCEPT !.log = Append(@, event)]

\* use(plugin): a plugin with the same id is replaced
use(s, plugin) ==
  [s EXCEPT !.plugins = Append(SelectSeq(@, LAMBDA p : p.id # plugin.id), plugin)]
\* _uninstallPlugins(): _allPlugins holds a new Router instance, whose _un is
\* not set, followed by the registered plugins
RECURSIVE uninstallFrom(_, _)
uninstallFrom(s, i) ==
  IF i > Len(s.plugins) THEN s
  ELSE LET p == s.plugins[i]
           called == IF p._un = "none" THEN s ELSE Logged(s, Event("uninstall", p.id, p._un))
       IN uninstallFrom([called EXCEPT !.plugins[i]._un = "none"], i + 1)
_uninstallPlugins(s) == uninstallFrom([s EXCEPT !.routers = @ + 1], 1)
\* the uninstaller kept in _un: install's result || plugin.uninstall
uninstaller(kind) ==
  IF kind.returnsFn THEN "returned" ELSE IF kind.hasUninstall THEN "uninstall" ELSE "none"
RECURSIVE installFrom(_, _)
installFrom(s, i) ==
  IF i > Len(s.plugins) THEN s
  ELSE LET p == s.plugins[i] IN
       installFrom([Logged(s, Installed(p)) EXCEPT
                      !.plugins[i]._un = uninstaller(p),
                      !.hooks = @ \cup {p.id}],
                   i + 1)
\* _installPlugins(): the Router instance that is installed is another new one
_installPlugins(s) ==
  LET s1 == _uninstallPlugins(s)
      router == s1.routers + 1
      s2 == [Logged(s1, Installed([id |-> "router", returnsFn |-> TRUE, hasUninstall |-> FALSE]))
               EXCEPT
                 !.routers = router, !.routerUn = router, !.hooks = @ \cup {"router"}]
  IN installFrom(s2, 1)
\* init(app), hasRouter telling whether app.config.globalProperties.$router is set
init(s, hasRouter) ==
  IF s.isInitialed THEN s
  ELSE LET s1 == [s EXCEPT !.isInitialed = TRUE] IN
       IF ~hasRouter THEN Logged(s1, Event("throw", "", ""))
       ELSE _installPlugins([s1 EXCEPT !.hasApp = TRUE])
\* destroy(), after its cleanup()
destroyed(s) ==
  LET s1 == _uninstallPlugins(Logged(s, Event("cleanup", "", "")))
      s2 == [Logged(s1, Event("removeAllHooks", "", "")) EXCEPT !.hooks = {}]
  IN Logged([s2 EXCEPT !.plugins = <<>>, !.hasApp = FALSE, !.isInitialed = FALSE],
            Event("destroyed", "", ""))

\* ---- callHookSync('sdk:cleanup'): the hooks the plugins registered ----
\* Router: clearDetailsRecord; Tabs: removeAll(true), whose setTabPages([])
\* runs updateKeepAlive; KeepAlive: clear; RouterScroller: positions.clear()
cleanupAsk == FALSE
cleanupForce == TRUE
cleanupTabs(t, hooks) == IF "tabs" \in hooks THEN removeAllNow(t, cleanupForce) ELSE t
cleanupKeepAlive(ka, t, hooks) ==
  LET ka1 == IF "tabs" \in hooks THEN updateKeepAlive(ka, cleanupTabs(t, hooks).pages) ELSE ka
  IN IF "keepAlive" \in hooks /\ ka1.installed THEN clear(Disturbed(ka1)) ELSE ka1
cleanupScroller(sc, hooks) ==
  IF "scroller" \in hooks /\ sc.installed THEN [sc EXCEPT !.positions = EmptyMap] ELSE sc
cleanupDetails(record, hooks) == IF "router" \in hooks THEN EmptyMap ELSE record
CleanupStores(s2) ==
  /\ _detailsRecord' = cleanupDetails(_detailsRecord, sdk.hooks)
  /\ navs' = IF "router" \in sdk.hooks THEN Disturb(navs) ELSE navs
  /\ tabs' = cleanupTabs(tabs, sdk.hooks)
  /\ keepAlive' = cleanupKeepAlive(keepAlive, tabs, sdk.hooks)
  /\ scroller' = cleanupScroller(scroller, sdk.hooks)
  /\ sdk' = [s2 EXCEPT !.cleaned = [done |-> TRUE, hooks |-> sdk.hooks,
                                    record |-> _detailsRecord', pages |-> tabs'.pages,
                                    active |-> tabs'.active, tasks |-> tabs'.tasks,
                                    keepAlive |-> keepAlive',
                                    before |-> [record |-> _detailsRecord, tabs |-> tabs,
                                                keepAlive |-> keepAlive]]]
  /\ UNCHANGED <<route, hist, pos, calls, hasIdentify, enhanceVars, hasState,
                 latestPosition, _detailsData, ready, trace, ids, moreVars>>

MaxSdkOps == 4
SdkCanCall == sdk.installed /\ sdk.ops < MaxSdkOps
SdkCalled == [sdk EXCEPT !.ops = @ + 1]
SdkFrame == UNCHANGED <<hostVars, hasIdentify, enhanceVars, pluginVars, tabs, keepAlive, scroller, ids, moreVars>>
SDK_use(kind) ==
  /\ SdkCanCall
  /\ sdk' = use(SdkCalled, NewPlugin(kind))
  /\ SdkFrame
SDK_init(hasRouter) ==
  /\ SdkCanCall
  /\ sdk' = init(SdkCalled, hasRouter)
  /\ SdkFrame
SDK_cleanup ==
  /\ SdkCanCall
  /\ CleanupStores(Logged(SdkCalled, Event("cleanup", "", "")))
SDK_destroy ==
  /\ SdkCanCall
  /\ CleanupStores(destroyed(SdkCalled))

\* new AppSDK()
InitSdk ==
  /\ InitHost("fresh")
  /\ hasIdentify = FALSE
  /\ EnhanceUnused
  /\ PluginUnused
  /\ TabsUnused
  /\ keepAlive = NoPlugin /\ scroller = NoPlugin /\ ids = NoIds /\ MoreUnused
  /\ sdk = NewSDK(<<>>, FALSE, {})
NextSdk ==
  \/ \E kind \in PluginKinds : SDK_use(kind)
  \/ \E hasRouter \in BOOLEAN : SDK_init(hasRouter)
  \/ SDK_cleanup
  \/ SDK_destroy
SpecSdk == InitSdk /\ [][NextSdk]_vars

\* ---- an initialised AppSDK whose plugins have been at work ----
\* init() installed the Router plugin and the registered ones: KeepAlive
\* alone, Tabs alone, or both, and one more call may be made on the instance;
\* the application is fresh or was browsed, and
\* the tabs are those of a session with the component names they cached
HookSets == {{"router", "keepAlive"}, {"router", "tabs"}, {"router", "tabs", "keepAlive"}}
RegisteredPlugins(hooks) ==
  SelectSeq(<<NewPlugin([id |-> "keepAlive", returnsFn |-> TRUE, hasUninstall |-> FALSE]),
              NewPlugin([id |-> "tabs", returnsFn |-> TRUE, hasUninstall |-> FALSE])>>,
            LAMBDA p : p.id \in hooks)
InitCleanup ==
  \E session \in Sessions, hooks \in HookSets :
  /\ InitHost(session)
  /\ hasIdentify = FALSE
  /\ EnhanceUnused
  /\ hasState = TRUE
  /\ latestPosition = (IF session = "fresh" THEN Null ELSE getCurrentPosition(2))
  /\ _detailsData = DEFAULT_DETAILS_DATA
  /\ _detailsRecord =
       (IF session = "fresh" THEN EmptyMap
        ELSE MapSet(MapSet(EmptyMap, "/list", NewDetails(Start, _consumeDetailsData.data)),
                    "/detail?id=1", NewDetails("/list", _consumeDetailsData.data)))
  /\ ready = (session # "fresh")
  /\ trace = <<>>
  /\ scroller = NoPlugin /\ ids = NoIds /\ MoreUnused
  /\ sdk = [NewSDK([i \in 1..Len(RegisteredPlugins(hooks)) |->
                      [RegisteredPlugins(hooks)[i] EXCEPT !._un = "returned"]],
                   TRUE, hooks)
            EXCEPT !.routers = 2, !.routerUn = 2, !.ops = MaxSdkOps - 1]
  /\ \E tabSession \in TabSessions :
       LET paths == SessionPaths(tabSession)
           pages == [i \in 1..Len(paths) |-> createTabPage(paths[i])]
       IN /\ IF "tabs" \in hooks /\ paths # <<>>
               THEN \E i \in 1..Len(paths) : tabs = NewTabs(pages, pages[i].id, paths[i], "normal")
               ELSE tabs = NewTabs(<<>>, "", "/login", "normal")
          /\ IF "keepAlive" \in hooks
               THEN keepAlive = NewKeepAlive(CachedNames(pages), "tabs" \notin hooks, 0,
                                             IF paths = <<>> THEN "/login" ELSE paths[1])
               ELSE keepAlive = NoPlugin
NextCleanup ==
  \/ \E path \in TabRoutes : Tabs_addOne(path)
  \/ \E k \in 1..Len(tabs.tasks), allow \in BOOLEAN : Tabs_addOne_beforeAdd(k, allow)
  \/ \E k \in 1..Len(tabs.tasks) : Tabs_addOne_componentName(k)
  \/ \E id \in TabIds : Tabs_removeOne(id)
  \/ \E k \in 1..Len(tabs.tasks), veto \in 0..1 : Tabs_removeOne_resume(k, veto)
  \/ \E k \in 1..Len(keepAlive.jobs) : \E record \in keepAlive.jobs[k].pending, valid \in BOOLEAN :
       KeepAlive_settle(k, record, valid)
  \/ SDK_cleanup
SpecCleanup == InitCleanup /\ [][NextCleanup]_vars

\* ------------------------------------------------------------------------
\* Properties of the AppSDK
\* ------------------------------------------------------------------------
LastEvent == IF sdk.log = <<>> THEN Event("", "", "") ELSE sdk.log[Len(sdk.log)]

\* C28: after an init that threw for want of a router, no plugin was
\* installed by it and the instance is not initialised
C28_FailedInitLeavesUninitialised ==
  (sdk.installed /\ LastEvent.ev = "throw") => ~sdk.isInitialed


\* the position of the last event ev before position i of the log (0: none)
LastBefore(ev, i) ==
  IF \E j \in 1..(i - 1) : sdk.log[j].ev = ev
    THEN CHOOSE j \in 1..(i - 1) :
           sdk.log[j].ev = ev /\ \A m \in (j + 1)..(i - 1) : sdk.log[m].ev # ev
    ELSE 0
\* the positions of the calls of an uninstaller of the plugin id between i and j
UninstallsOf(id, i, j) ==
  {m \in (i + 1)..(j - 1) : sdk.log[m].ev = "uninstall" /\ sdk.log[m].id = id}

\* C29: when destroy() has returned, every plugin the last init() installed,
\* the Router plugin included, that has an uninstaller had it called exactly
\* once since, between the 'sdk:cleanup' dispatch and the removal of the
\* hooks: the function install() returned if there is one, and the plugin's
\* uninstall() otherwise
C29_DestroyUninstallsOnce ==
  (sdk.installed /\ LastEvent.ev = "destroyed") =>
    LET end == Len(sdk.log)
        hooks == LastBefore("removeAllHooks", end)
        cleanup == LastBefore("cleanup", hooks)
        start == LastBefore("destroyed", end)
    IN \A i \in (start + 1)..cleanup :
         (sdk.log[i].ev = "install" /\ (sdk.log[i].returnsFn \/ sdk.log[i].hasUninstall)) =>
           /\ Cardinality(UninstallsOf(sdk.log[i].id, i, end)) = 1
           /\ \A m \in UninstallsOf(sdk.log[i].id, i, end) :
                /\ cleanup < m /\ m < hooks
                /\ sdk.log[m].how = IF sdk.log[i].returnsFn THEN "returned" ELSE "uninstall"


\* C30: when cleanup() has returned, the store of every plugin whose
\* 'sdk:cleanup' hook is registered is empty: the details record has no
\* entry; the tab list is empty and the active id is '', affixed tabs
\* included, and no call to beforeRemove was started for it; the keep-alive
\* set is empty
C30_CleanupEmptiesStores ==
  (sdk.installed /\ sdk.cleaned.done) =>
    LET cleaned == sdk.cleaned IN
    /\ "router" \in cleaned.hooks => cleaned.record = EmptyMap
    /\ "tabs" \in cleaned.hooks =>
         /\ cleaned.pages = <<>>
         /\ cleaned.active = ""
         /\ cleaned.tasks = cleaned.before.tabs.tasks
    /\ "keepAlive" \in cleaned.hooks => cleaned.keepAlive.values = {}
\* cleanup ran with details recorded, an affixed tab in the list, names in
\* the keep-alive set and a removeOne waiting for beforeRemove
C30_Witness ==
  /\ sdk.installed /\ sdk.cleaned.done
  /\ sdk.cleaned.hooks = {"router", "tabs", "keepAlive"}
  /\ sdk.cleaned.before.record # EmptyMap
  /\ \E i \in 1..Len(sdk.cleaned.before.tabs.pages) : isAffix(sdk.cleaned.before.tabs.pages[i])
  /\ sdk.cleaned.before.keepAlive.values # {}
  /\ \E k \in 1..Len(sdk.cleaned.before.tabs.tasks) :
       /\ sdk.cleaned.before.tabs.tasks[k].op = "removeOne"
       /\ sdk.cleaned.before.tabs.tasks[k].pc = "beforeRemove"
  /\ sdk.cleaned.pages = <<>>
  /\ sdk.cleaned.keepAlive.values = {}


\* ======================================================================
\* Feature authorisation (class Auth, createFeatureAuth)
\* ======================================================================

\* feature codes, and the granted list: '*' or an array of codes
Codes == {"list:add", "list:edit"}
AllGranted == [all |-> TRUE, codes |-> {}]
Granted(codes) == [all |-> FALSE, codes |-> codes]
AuthLists == {AllGranted} \cup {Granted(codes) : codes \in SUBSET Codes}
\* MaybeArray<string>: one code or an array of codes
Requests == {[one |-> code] : code \in Codes} \cup {[many |-> codes] : codes \in SUBSET Codes}
castArray(value) == IF "one" \in DOMAIN value THEN {value.one} ELSE value.many
\* the operator argument: 'or', 'and', or left out
Operators == {"or", "and", Undef}
\* how a call ends
Answer(value) == [threw |-> FALSE, value |-> value]
TypeError == [threw |-> TRUE, value |-> FALSE]

NewAuth(kind, list) ==
  [installed |-> TRUE, jobs |-> <<>>, kind |-> kind, list |-> list, _allowTip |-> TRUE,
   warned |-> FALSE, log |-> <<>>]
empower(a, list) == [a EXCEPT !.list = list, !._allowTip = FALSE]
\* Auth.verify: Array.prototype.every / some with set.has bound to the set
verify(a, codes, op) ==
  IF a.list.all THEN Answer(TRUE)
  ELSE IF castArray(codes) = {} THEN Answer(FALSE)
  ELSE IF op = "and" THEN Answer(\A code \in castArray(codes) : code \in a.list.codes)
  ELSE Answer(\E code \in castArray(codes) : code \in a.list.codes)
\* the warning Auth.verify logs while no list was ever granted
warns(a, codes) ==
  ~a.list.all /\ castArray(codes) # {} /\ a.list.codes = {} /\ a._allowTip
\* FeatureAuth.hasAuth: every / some are handed the unbound Set.prototype.has,
\* which is called with an undefined receiver
hasAuth(a, features, op) ==
  IF a.list.all THEN Answer(TRUE)
  ELSE IF castArray(features) = {} THEN Answer(FALSE)
  ELSE TypeError
check(a, codes, op) ==
  IF a.kind = "Auth" THEN verify(a, codes, op) ELSE hasAuth(a, codes, op)
\* directive.mounted: whether el.remove() is called
removes(a, value, arg) ==
  LET result == check(a, value, arg)
  IN IF a.kind = "Auth" THEN ~result.threw /\ result.value
     ELSE ~result.threw /\ ~result.value

MaxAuthOps == 2
AuthCanCall == auth.installed /\ Len(auth.log) < MaxAuthOps
AuthFrame == UNCHANGED <<hostVars, hasIdentify, enhanceVars, pluginVars, tabs, keepAlive, scroller, sdk, ids, hydration, routeLock, loader, onceGuards>>
AuthCall(call, a, codes, op, removed) ==
  [call |-> call, list |-> a.list, codes |-> castArray(codes), op |-> op,
   result |-> check(a, codes, op), removed |-> removed]
Auth_empower(list) ==
  /\ auth.installed /\ auth.kind = "Auth"
  /\ auth.list # list
  /\ auth' = empower(auth, list)
  /\ AuthFrame
\* the sdk:cleanup hook of Auth.install
Auth_cleanup ==
  /\ auth.installed /\ auth.kind = "Auth"
  /\ auth.list # Granted({})
  /\ auth' = empower(auth, Granted({}))
  /\ AuthFrame
Auth_verify(codes, op) ==
  /\ AuthCanCall
  /\ auth' = [auth EXCEPT !.log = Append(@, AuthCall("verify", auth, codes, op, FALSE)),
                          !.warned = @ \/ (auth.kind = "Auth" /\ warns(auth, codes))]
  /\ AuthFrame
Auth_mounted(value, arg) ==
  /\ AuthCanCall
  /\ auth' = [auth EXCEPT !.log = Append(@, AuthCall("mounted", auth, value, arg,
                                                      removes(auth, value, arg))),
                          !.warned = @ \/ (auth.kind = "Auth" /\ warns(auth, value))]
  /\ AuthFrame
InitAuth ==
  /\ InitHost("fresh")
  /\ hasIdentify = FALSE
  /\ EnhanceUnused
  /\ PluginUnused
  /\ TabsUnused
  /\ keepAlive = NoPlugin /\ scroller = NoPlugin /\ sdk = NoPlugin /\ ids = NoIds
  /\ hydration = NoPlugin /\ routeLock = NoPlugin /\ loader = NoPlugin /\ onceGuards = NoPlugin
  /\ \/ auth = NewAuth("Auth", Granted({}))
     \/ \E list \in AuthLists : auth = NewAuth("FeatureAuth", list)
NextAuth ==
  \/ \E list \in AuthLists : Auth_empower(list)
  \/ Auth_cleanup
  \/ \E codes \in Requests, op \in Operators : Auth_verify(codes, op)
  \/ \E value \in Requests, arg \in Operators : Auth_mounted(value, arg)
SpecAuth == InitAuth /\ [][NextAuth]_vars

\* what the permission check is to answer
Permitted(list, codes, op) ==
  \/ list.all
  \/ /\ codes # {}
     /\ IF op = "and" THEN codes \subseteq list.codes ELSE codes \cap list.codes # {}
\* C31: every check returns true for '*', false for no code, and otherwise
\* what 'or' / 'and' ask for; the directive removes its element exactly when
\* the check returns false
C31_PermissionCheck ==
  \A i \in 1..Len(auth.log) :
    LET call == auth.log[i]
    IN /\ ~call.result.threw
       /\ call.result.value = Permitted(call.list, call.codes, call.op)
       /\ call.call = "mounted" => (call.removed = ~call.result.value)


\* ======================================================================
\* Persisted details map of enhanceRouter (createPersistentRef with the
\* asynchronous storage, its serializer and oldMap)
\* ======================================================================

DetailPaths == {"/list", "/detail"}
\* the data of a details entry; Undef is empty data
DetailData == Data \cup {Undef}
isEmpty(data) == data = Undef
DetailMaps(values) == UNION {[paths -> values] : paths \in SUBSET DetailPaths}
\* what storage.getItem resolves with: null, or the stored string
NoItem == [null |-> TRUE, map |-> EmptyMap]
Item(map) == [null |-> FALSE, map |-> map]

\* serializer.write: remembers the map and keeps the entries with data
writeDetails(map) == [path \in {p \in DOMAIN map : ~isEmpty(map[p])} |-> map[path]]
\* serializer.read: the stored entries, then the entries of oldMap whose key
\* is not stored
readDetails(stored, hasOldMap, oldMap) ==
  IF hasOldMap
    THEN [path \in DOMAIN stored \cup DOMAIN oldMap |->
            IF path \in DOMAIN stored THEN stored[path] ELSE oldMap[path]]
    ELSE stored

NewHydration(item) ==
  [installed |-> TRUE, jobs |-> <<>>,
   item |-> item,                \* what the pending getItem resolves with
   stored |-> item,              \* what the storage holds
   value |-> EmptyMap,           \* detailsCache.value
   hasOldMap |-> FALSE,          \* oldMap is the map the ref holds
   pending |-> TRUE,             \* the read of useStorageAsync has not resolved
   dirty |-> FALSE,              \* the watcher of the ref is scheduled
   ops |-> 0,
   written |-> EmptyMap,         \* entries set before the read resolved
   hydrated |-> EmptyMap,        \* detailsCache.value when the read resolved
   merged |-> FALSE]             \* the read found oldMap set

MaxHydrateOps == 2
HydrationFrame == UNCHANGED <<hostVars, hasIdentify, enhanceVars, pluginVars, tabs, keepAlive, scroller, sdk, ids, auth, routeLock, loader, onceGuards>>
\* afterEach of a committed navigation: detailsCache.value.set(to.path, details)
Hydration_set(path, data) ==
  /\ hydration.installed /\ hydration.ops < MaxHydrateOps
  /\ hydration' = [hydration EXCEPT !.value = MapSet(@, path, data),
                                    !.dirty = TRUE,
                                    !.ops = @ + 1,
                                    !.written = IF hydration.pending
                                                  THEN MapSet(@, path, data) ELSE @]
  /\ HydrationFrame
\* the watcher of the ref: storage.setItem(key, serializer.write(value))
Hydration_flush ==
  /\ hydration.installed /\ hydration.dirty
  /\ hydration' = [hydration EXCEPT !.dirty = FALSE,
                                    !.hasOldMap = TRUE,
                                    !.stored = Item(writeDetails(hydration.value))]
  /\ HydrationFrame
\* storage.getItem resolves: nothing stored keeps the map and writes it as
\* the default, a stored string is handed to serializer.read
Hydration_resolve ==
  /\ hydration.installed /\ hydration.pending
  /\ LET h == hydration
         value == IF h.item.null THEN h.value
                  ELSE readDetails(h.item.map, h.hasOldMap, h.value)
     IN hydration' = [h EXCEPT !.pending = FALSE,
                               !.value = value,
                               !.hasOldMap = h.item.null,
                               !.stored = IF h.item.null THEN Item(writeDetails(h.value)) ELSE @,
                               !.dirty = IF h.item.null THEN @ ELSE TRUE,
                               !.hydrated = value,
                               !.merged = h.hasOldMap]
  /\ HydrationFrame
InitHydration ==
  /\ InitHost("fresh")
  /\ hasIdentify = FALSE
  /\ EnhanceUnused
  /\ PluginUnused
  /\ TabsUnused
  /\ keepAlive = NoPlugin /\ scroller = NoPlugin /\ sdk = NoPlugin /\ ids = NoIds
  /\ auth = NoPlugin /\ routeLock = NoPlugin /\ loader = NoPlugin /\ onceGuards = NoPlugin
  /\ \E item \in {NoItem} \cup {Item(map) : map \in DetailMaps(Data)} :
       hydration = NewHydration(item)
NextHydration ==
  \/ \E path \in DetailPaths, data \in DetailData : Hydration_set(path, data)
  \/ Hydration_flush
  \/ Hydration_resolve
SpecHydration == InitHydration /\ [][NextHydration]_vars

\* the read resolved after the session had written entries and the watcher
\* had handed them to serializer.write
HydratedAfterWrites ==
  /\ hydration.installed /\ ~hydration.pending
  /\ hydration.written # EmptyMap
  /\ hydration.merged
\* C32: when the hydration resolves after writes of the session, the map
\* holds every written key with the written value and every other stored key
C32_HydrationKeepsSession ==
  HydratedAfterWrites =>
    /\ \A path \in DOMAIN hydration.written :
         /\ path \in DOMAIN hydration.hydrated
         /\ hydration.hydrated[path] = hydration.written[path]
    /\ \A path \in DOMAIN hydration.item.map \ DOMAIN hydration.written :
         /\ path \in DOMAIN hydration.hydrated
         /\ hydration.hydrated[path] = hydration.item.map[path]


\* ======================================================================
\* KeepAlive: the eviction timer (startStaleTimer, stopStaleTimer)
\* ======================================================================

\* setTimeout calls in one run
MaxTimers == 3
\* setTimeout(callback, delay) and clearTimeout(id) of the event loop
setTimeout(ka) ==
  [ka EXCEPT !._staleTimer = ka.nextTimer, !.timers = @ \cup {ka.nextTimer},
             !.nextTimer = @ + 1]
clearTimeout(ka, id) == [ka EXCEPT !.timers = @ \ {id}]
stopStaleTimerForget(ka) ==
  IF ka._staleTimer # 0 THEN [ka EXCEPT !._staleTimer = 0] ELSE ka
stopStaleTimer(ka) ==
  IF ka._staleTimer # 0
    THEN [clearTimeout(ka, ka._staleTimer) EXCEPT !._staleTimer = 0]
    ELSE ka
startStaleTimer(ka) ==
  IF ka.staleTime <= 0 THEN ka
  ELSE setTimeout(clearExpired(stopStaleTimer(ka)))
\* the function install returns: unwatch() and stopStaleTimer()
uninstallKeepAlive(ka) == [stopStaleTimer(ka) EXCEPT !.tornDown = TRUE]

CanSetTimeout(ka) == ka.staleTime > 0 => ka.nextTimer <= MaxTimers
KeepAlive_startStaleTimer ==
  /\ keepAlive.installed /\ CanSetTimeout(keepAlive)
  /\ keepAlive' = [startStaleTimer(keepAlive) EXCEPT
                     !.tornDown = @ /\ keepAlive.staleTime <= 0]
  /\ KeepFrame
KeepAlive_stopStaleTimer ==
  /\ keepAlive.installed
  /\ keepAlive' = stopStaleTimer(keepAlive)
  /\ KeepFrame
\* a pending timeout is due: the event loop calls startStaleTimer
KeepAlive_timeout(id) ==
  /\ keepAlive.installed /\ CanSetTimeout(keepAlive)
  /\ id \in keepAlive.timers
  /\ keepAlive' = [startStaleTimer([keepAlive EXCEPT !.timers = @ \ {id}]) EXCEPT
                     !.fired = 1,
                     !.leaked = @ \/ keepAlive.tornDown,
                     !.tornDown = @ /\ keepAlive.staleTime <= 0]
  /\ KeepFrame
KeepAlive_uninstall ==
  /\ keepAlive.installed
  /\ keepAlive' = uninstallKeepAlive(keepAlive)
  /\ KeepFrame
\* options.staleTime is assigned
KeepAlive_setStaleTime(staleTime) ==
  /\ keepAlive.installed
  /\ keepAlive.staleTime # staleTime
  /\ keepAlive' = [keepAlive EXCEPT !.staleTime = staleTime]
  /\ KeepFrame
\* new KeepAlive({ autoCollectAndClean: false, staleTime? })
InitTimer ==
  /\ InitHost("fresh")
  /\ hasIdentify = FALSE
  /\ EnhanceUnused
  /\ PluginUnused
  /\ TabsUnused
  /\ scroller = NoPlugin /\ sdk = NoPlugin /\ ids = NoIds /\ MoreUnused
  /\ \E staleTime \in {0, StaleTime} : keepAlive = NewKeepAlive({}, FALSE, staleTime, "/s")
NextTimer ==
  \/ KeepAlive_startStaleTimer
  \/ KeepAlive_stopStaleTimer
  \/ \E id \in 1..MaxTimers : KeepAlive_timeout(id)
  \/ KeepAlive_uninstall
  \/ \E staleTime \in {0, StaleTime} : KeepAlive_setStaleTime(staleTime)
  \/ KeepAlive_tick
  \/ \E name \in KeepNames : KeepAlive_add(name)
SpecTimer == InitTimer /\ [][NextTimer]_vars

\* C33: at most one eviction timer is pending; once the uninstall function
\* has run none is pending and none fires until startStaleTimer is called
C33_OneStaleTimer ==
  keepAlive.installed =>
    /\ Cardinality(keepAlive.timers) <= 1
    /\ keepAlive.tornDown => keepAlive.timers = {}
    /\ ~keepAlive.leaked
\* the timer fired and re-armed itself, was started again by a call, and
\* the plugin was then uninstalled
C33_Witness ==
  /\ keepAlive.installed
  /\ keepAlive.fired = 1
  /\ keepAlive.nextTimer > MaxTimers
  /\ keepAlive.tornDown
  /\ keepAlive._staleTimer = 0


\* ======================================================================
\* createTabs: the route lock (isRouteLocked, lockRoute, unlockRoute)
\* ======================================================================

\* routes with tab metadata; the id of a tab page is its fullPath. The
\* component of "/lazy" has no name until its loader resolves, the one of
\* "/broken" is a function whose call throws
LockRoutes == {"/a", "/b", "/lazy", "/broken"}
ComponentKind(path) ==
  CASE path = "/lazy" -> "lazy"
    [] path = "/broken" -> "broken"
    [] OTHER -> "named"
MaxLockNavs == 3
NavOutcomes == {"committed", "failed", "error"}

NewCreateTabs(pages, active) ==
  [installed |-> TRUE, jobs |-> <<>>, pages |-> pages, active |-> active,
   route |-> active, locked |-> FALSE]
\* a navigation: router.push of setActive (byTabs) or of the application
LockNav(to, byTabs) == [to |-> to, byTabs |-> byTabs, stage |-> "pending", outcome |-> Undef]
isRouteLocked(t) == t.locked
lockRoute(t) == [t EXCEPT !.locked = TRUE]
unlockRoute(t) == [t EXCEPT !.locked = FALSE]
\* setActive(value); the default processActiveOnEmpty resolves at once
createTabs_setActive(t, id) ==
  IF id = t.active THEN t
  ELSE LET t1 == [t EXCEPT !.active = id] IN
       IF id = "" THEN unlockRoute(t1)
       ELSE IF isRouteLocked(t1) THEN t1
       ELSE IF id \in t1.pages
         THEN [lockRoute(t1) EXCEPT !.jobs = Append(@, LockNav(id, TRUE))]
         ELSE unlockRoute(lockRoute(t1))
\* addOne(route) up to its first real wait: an open tab is activated, a tab
\* whose component has a name is pushed and activated, otherwise the name is
\* awaited
addOneStart(t, n) ==
  LET to == t.jobs[n].to IN
  IF to \in t.pages
    THEN [createTabs_setActive(t, to) EXCEPT !.jobs[n].stage = "done"]
  ELSE IF ComponentKind(to) = "named"
    THEN [createTabs_setActive([t EXCEPT !.pages = @ \cup {to}], to) EXCEPT
            !.jobs[n].stage = "done"]
  ELSE [t EXCEPT !.jobs[n].stage = "adding"]
\* the hook of 'sdk:router:direction:end' registered by the collector, and
\* the finally(unlockRoute) of the push of setActive
endHook(t, n, outcome) ==
  LET nav == t.jobs[n]
      t1 == [t EXCEPT !.jobs[n].outcome = outcome,
                      !.route = IF outcome = "committed" THEN nav.to ELSE @]
      hooked ==
        IF outcome = "committed"
          THEN LET added == addOneStart(lockRoute(t1), n)
               IN IF added.jobs[n].stage = "done" THEN unlockRoute(added) ELSE added
        ELSE IF outcome = "failed"
          THEN unlockRoute([t1 EXCEPT !.jobs[n].stage = "done"])
        ELSE [t1 EXCEPT !.jobs[n].stage = "done"]
  IN IF nav.byTabs THEN unlockRoute(hooked) ELSE hooked
\* the awaited component name of addOne settles
addOneResume(t, n, ok) ==
  LET to == t.jobs[n].to IN
  IF ok
    THEN unlockRoute([createTabs_setActive([t EXCEPT !.pages = @ \cup {to}], to) EXCEPT
                        !.jobs[n].stage = "done"])
    ELSE [t EXCEPT !.jobs[n].stage = "done", !.jobs[n].outcome = "rejected"]

LockFrame == UNCHANGED <<hostVars, hasIdentify, enhanceVars, pluginVars, tabs, keepAlive, scroller, sdk, ids, auth, hydration, loader, onceGuards>>
LockCanNavigate == routeLock.installed /\ Len(routeLock.jobs) < MaxLockNavs
RouteLock_push(to) ==
  /\ LockCanNavigate
  /\ routeLock' = [routeLock EXCEPT !.jobs = Append(@, LockNav(to, FALSE))]
  /\ LockFrame
RouteLock_setActive(id) ==
  /\ LockCanNavigate
  /\ id \in routeLock.pages \cup {""}
  /\ id # routeLock.active
  /\ routeLock' = createTabs_setActive(routeLock, id)
  /\ LockFrame
RouteLock_end(n, outcome) ==
  /\ routeLock.installed
  /\ n \in 1..Len(routeLock.jobs)
  /\ routeLock.jobs[n].stage = "pending"
  /\ routeLock' = endHook(routeLock, n, outcome)
  /\ LockFrame
RouteLock_added(n) ==
  /\ routeLock.installed
  /\ n \in 1..Len(routeLock.jobs)
  /\ routeLock.jobs[n].stage = "adding"
  /\ routeLock.locked \/ Len(routeLock.jobs) < MaxLockNavs
  /\ routeLock' = addOneResume(routeLock, n, ComponentKind(routeLock.jobs[n].to) = "lazy")
  /\ LockFrame
InitLock ==
  /\ InitHost("fresh")
  /\ hasIdentify = FALSE
  /\ EnhanceUnused
  /\ PluginUnused
  /\ TabsUnused
  /\ keepAlive = NoPlugin /\ scroller = NoPlugin /\ sdk = NoPlugin /\ ids = NoIds
  /\ auth = NoPlugin /\ hydration = NoPlugin /\ loader = NoPlugin /\ onceGuards = NoPlugin
  /\ \E pages \in {{"/a"}, {"/a", "/b"}} : routeLock = NewCreateTabs(pages, "/a")
NextLock ==
  \/ \E to \in LockRoutes : RouteLock_push(to)
  \/ \E id \in LockRoutes \cup {""} : RouteLock_setActive(id)
  \/ \E n \in 1..MaxLockNavs, outcome \in NavOutcomes : RouteLock_end(n, outcome)
  \/ \E n \in 1..MaxLockNavs : RouteLock_added(n)
SpecLock == InitLock /\ [][NextLock]_vars

\* every navigation and every call has settled
LockSettled ==
  /\ routeLock.installed
  /\ \A n \in 1..Len(routeLock.jobs) : routeLock.jobs[n].stage = "done"
\* C34: once every navigation and every setActive call has settled, the
\* route lock is not held
C34_LockReleased == LockSettled => ~isRouteLocked(routeLock)


\* ======================================================================
\* Direction events of enhanceRouter across overlapping navigations
\* (checked under SpecOnce)
\* ======================================================================
DirectionStarts(n) ==
  {i \in 1..Len(events) : events[i].name = "sdk:router:direction" /\ events[i].nav = n}
DirectionEnds(n) ==
  {i \in 1..Len(events) : events[i].name = "sdk:router:direction:end" /\ events[i].nav = n}
\* C35: every committed navigation has exactly one sdk:router:direction event
\* before it and exactly one sdk:router:direction:end event after it, which
\* carries the direction, to and from of that start event
C35_OneStartOneEnd ==
  \A n \in 1..Len(navs) :
    Committed(n) =>
      /\ Cardinality(DirectionStarts(n)) = 1
      /\ Cardinality(DirectionEnds(n)) = 1
      /\ \A i \in DirectionStarts(n), j \in DirectionEnds(n) :
           /\ i < j
           /\ events[j].by = n
           /\ events[j].arg = events[i].arg


\* ======================================================================
\* router.beforeOnce with several guards (Router.install, enhanceRouter)
\* ======================================================================
MaxGuards == 2
MaxOnceNavs == 2
NewOnce(guards) ==
  [installed |-> TRUE, jobs |-> <<>>, guards |-> guards, _onceLocked |-> FALSE]
\* a navigation: the beforeEach guards registered when it started, the next
\* of them to run, and how often each beforeOnce guard was invoked
OnceNav(guards) ==
  [guards |-> guards, wrapper |-> 1, invoked |-> [g \in 1..MaxGuards |-> 0],
   stage |-> "guards", failure |-> NoFailure]
\* the beforeEach wrapper of guard g runs for navigation n; the guard itself
\* returns without suspending
beforeOnce(o, n) ==
  LET g == o.jobs[n].wrapper IN
  IF o._onceLocked
    THEN [o EXCEPT !.jobs[n].wrapper = g + 1]
    ELSE [o EXCEPT !._onceLocked = TRUE,
                   !.jobs[n].invoked[g] = @ + 1,
                   !.jobs[n].wrapper = g + 1]
\* router.afterEach(() => { this._onceLocked = false })
onceAfterEach(o, n, failure) ==
  [o EXCEPT !._onceLocked = FALSE, !.jobs[n].stage = "done", !.jobs[n].failure = failure]

OnceFrame == UNCHANGED <<hostVars, hasIdentify, enhanceVars, pluginVars, tabs, keepAlive, scroller, sdk, ids, auth, hydration, routeLock, loader>>
\* the application registers one more guard: router.beforeOnce(guard)
Once_register ==
  /\ onceGuards.installed /\ onceGuards.guards < MaxGuards
  /\ onceGuards' = [onceGuards EXCEPT !.guards = @ + 1]
  /\ OnceFrame
Once_navigate ==
  /\ onceGuards.installed /\ Len(onceGuards.jobs) < MaxOnceNavs
  /\ onceGuards' = [onceGuards EXCEPT !.jobs = Append(@, OnceNav(onceGuards.guards))]
  /\ OnceFrame
Once_guard(n) ==
  /\ onceGuards.installed
  /\ n \in 1..Len(onceGuards.jobs)
  /\ onceGuards.jobs[n].stage = "guards"
  /\ onceGuards.jobs[n].wrapper <= onceGuards.jobs[n].guards
  /\ onceGuards' = beforeOnce(onceGuards, n)
  /\ OnceFrame
\* the navigation passed its guards: it commits or fails, afterEach runs
Once_afterEach(n, failure) ==
  /\ onceGuards.installed
  /\ n \in 1..Len(onceGuards.jobs)
  /\ onceGuards.jobs[n].stage = "guards"
  /\ onceGuards.jobs[n].wrapper > onceGuards.jobs[n].guards
  /\ failure = "cancelled" => \E m \in 1..Len(onceGuards.jobs) : m > n
  /\ onceGuards' = onceAfterEach(onceGuards, n, failure)
  /\ OnceFrame
InitOnceGuards ==
  /\ InitHost("fresh")
  /\ hasIdentify = FALSE
  /\ EnhanceUnused
  /\ PluginUnused
  /\ TabsUnused
  /\ keepAlive = NoPlugin /\ scroller = NoPlugin /\ sdk = NoPlugin /\ ids = NoIds
  /\ auth = NoPlugin /\ hydration = NoPlugin /\ routeLock = NoPlugin /\ loader = NoPlugin
  /\ \E guards \in 0..MaxGuards : onceGuards = NewOnce(guards)
NextOnceGuards ==
  \/ Once_register
  \/ Once_navigate
  \/ \E n \in 1..MaxOnceNavs : Once_guard(n)
  \/ \E n \in 1..MaxOnceNavs, failure \in {NoFailure, "aborted", "cancelled"} :
       Once_afterEach(n, failure)
SpecOnceGuards == InitOnceGuards /\ [][NextOnceGuards]_vars

\* C36: a navigation that has passed its guards has invoked every guard
\* registered through beforeOnce exactly once
C36_EveryOnceGuardRuns ==
  onceGuards.installed =>
    \A n \in 1..Len(onceGuards.jobs) :
      onceGuards.jobs[n].wrapper > onceGuards.jobs[n].guards =>
        \A g \in 1..onceGuards.jobs[n].guards : onceGuards.jobs[n].invoked[g] = 1


\* ======================================================================
\* Bulk removals of Tabs while other calls run (checked under SpecTabs)
\* ======================================================================
\* the tabs for which beforeRemove was asked and resolved truthy
Approved(task) == IF task.veto = 0 THEN Elements(task.cand) ELSE {}
\* C37: removeOther, removeSide and removeAll(false) take out of the list
\* only tabs for which beforeRemove was asked and resolved truthy in that
\* call, and never the source tab, whatever other calls do meanwhile
C37_RemovesOnlyApproved ==
  \A k \in 1..Len(tabs.tasks) :
    LET task == tabs.tasks[k] IN
    (task.op \in BulkOps /\ ~task.force /\ task.pc = "done") =>
      /\ task.removed \subseteq Approved(task)
      /\ task.arg \notin task.removed


\* ======================================================================
\* Backward navigations of the Router plugin (checked under SpecRouter)
\* ======================================================================
BackwardCommitted(n) ==
  Committed(n) /\ navs[n].direction = "backward" /\ navs[n].to # navs[n].from
\* C38: a committed backward navigation started without a payload deletes
\* the entry of the origin route and leaves the entry of the target route
\* as it was; the target entry is replaced only when the navigation was
\* started with a payload (the same implication, read the other way)
C38_BackwardKeepsTarget ==
  \A n \in Navs :
    BackwardCommitted(n) =>
      /\ ~navs[n].fromEntry
      /\ (navs[n].payload = Undef => navs[n].kept)


\* ======================================================================
\* RouterScroller.trigger (RouterScroller.ts:173-184)
\* ======================================================================
MaxTriggers == 1
MaxTriggerNavs == 2
ManualJobs(sc) == {k \in 1..Len(sc.jobs) : sc.jobs[k].isManual}
\* trigger(): applyPositions(route, route, positions.get(route.fullPath),
\* NavigationDirection.unchanged, true), run up to its first await
trigger(sc) ==
  LET job == [Restoration(sc, Len(sc.navs), sc.route, sc.route, "unchanged") EXCEPT
                !.isManual = TRUE, !.quiet = NoNavigation(sc), !.pc = "run"]
      called == [sc EXCEPT !.jobs = Append(@, job)]
  IN applyPositions(called, Len(called.jobs), 1)
Scroller_trigger ==
  /\ scroller.installed
  /\ NoTick(scroller)
  /\ Cardinality(ManualJobs(scroller)) < MaxTriggers
  /\ scroller' = trigger(scroller)
  /\ ScrollFrame
InitTrigger ==
  /\ InitHost("fresh")
  /\ hasIdentify = FALSE
  /\ EnhanceUnused
  /\ PluginUnused
  /\ TabsUnused
  /\ keepAlive = NoPlugin /\ sdk = NoPlugin /\ ids = NoIds /\ MoreUnused
  /\ \E kind \in HandlerKinds, scrollOnlyBackward \in BOOLEAN :
       scroller = NewScroller([selector \in Selectors |->
                                 IF selector = "window" THEN kind
                                 ELSE "true"],
                              scrollOnlyBackward, TRUE)
NextTrigger ==
  \/ \E selector \in {"window", ".list"}, y \in Offsets : Scroller_scroll(selector, y)
  \/ \E to \in ScrollRoutes : Len(scroller.navs) < MaxTriggerNavs /\ Scroller_push(to)
  \/ Len(scroller.navs) < MaxTriggerNavs /\ Scroller_back
  \/ \E n \in 1..Len(scroller.navs) : Scroller_beforeResolve(n)
  \/ \E n \in 1..Len(scroller.navs) : Scroller_afterEach(n)
  \/ \E k \in 1..Len(scroller.jobs) : Scroller_nextTick(k)
  \/ \E k \in 1..Len(scroller.jobs), result \in HandlerResults : Scroller_handler(k, result)
  \/ Scroller_trigger
SpecTrigger == InitTrigger /\ [][NextTrigger]_vars

\* log entry a is the automatic restoration of the route that the manual
\* restoration of log entry m repeats, for the same selector
Repeats(m, a) ==
  LET manual == scroller.jobs[scroller.log[m].job]
      auto == scroller.jobs[scroller.log[a].job]
  IN /\ a < m
     /\ manual.isManual /\ manual.quiet
     /\ ~auto.isManual /\ auto.nav = manual.nav
     /\ scroller.log[a].selector = scroller.log[m].selector
\* C39: for a selector whose handler is true, trigger() called after the
\* automatic restoration of the current route scrolls the element to the
\* position the automatic restoration scrolled it to, whatever
\* scrollOnlyBackward is and whatever the direction of the navigation was
C39_TriggerRepeatsRestoration ==
  scroller.installed =>
    \A m, a \in 1..Len(scroller.log) :
      (Repeats(m, a) /\ scroller.log[m].handler = "true") =>
        /\ scroller.log[m].scrolled
        /\ scroller.log[m].y = scroller.log[a].y


\* ======================================================================
\* Component names of route records (src/unnamed/part_033, part_034)
\* ======================================================================
\* route records whose components.default is a lazy loader
LazyRecords == {"/list", "/detail"}
\* the name of the component a loader resolves to; '' for an anonymous one
ComponentNames == {"", "Page"}
Resolvers == {"asyncGetComponentNameByRoute", "resolveComponentNameByRoute"}
MaxRequests == 3
\* the module state of the utilities and of the records: routeNameMap, which
\* records still hold their loader function, how often each loader was
\* invoked, and the requests made
NewLoader(resolver, names) ==
  [installed |-> TRUE, resolver |-> resolver, names |-> names,
   routeNameMap |-> EmptyMap,
   unloaded |-> [r \in LazyRecords |-> TRUE],
   invoked |-> [r \in LazyRecords |-> 0],
   jobs |-> <<>>]
NameRequest(r, pc, name) == [record |-> r, pc |-> pc, name |-> name]
\* part_034:87-91
isUnloadedRoute(l, r) == l.unloaded[r]
\* part_034:109-116
getComponentName(l, r) == l.names[r]
\* part_033:62-79, up to `await component`
asyncGetComponentNameByRoute(l, r) ==
  IF r \in DOMAIN l.routeNameMap
    THEN [l EXCEPT !.jobs = Append(@, NameRequest(r, "done", l.routeNameMap[r]))]
    ELSE [l EXCEPT !.invoked[r] = @ + 1,
                   !.jobs = Append(@, NameRequest(r, "await", ""))]
\* part_033:73-78, after the await
asyncGetComponentNameByRoute_resume(l, k) ==
  LET r == l.jobs[k].record
      name == l.names[r]
      remembered == IF name # "" THEN MapSet(l.routeNameMap, r, name) ELSE l.routeNameMap
  IN [l EXCEPT !.routeNameMap = remembered,
               !.jobs[k].pc = "done", !.jobs[k].name = name]
\* part_034:149-155 with loadRoute (96-104) and loadRouteRecord (49-80), up
\* to the await of the loader's promise
resolveComponentNameByRoute(l, r) ==
  IF isUnloadedRoute(l, r)
    THEN [l EXCEPT !.invoked[r] = @ + 1,
                   !.jobs = Append(@, NameRequest(r, "await", ""))]
    ELSE [l EXCEPT !.jobs = Append(@, NameRequest(r, "done", getComponentName(l, r)))]
\* part_034:60-72 and 153-154: components[name] = resolvedComponent
resolveComponentNameByRoute_resume(l, k) ==
  LET r == l.jobs[k].record
  IN [l EXCEPT !.unloaded[r] = FALSE,
               !.jobs[k].pc = "done", !.jobs[k].name = getComponentName(l, r)]

LoaderFrame == UNCHANGED <<hostVars, hasIdentify, enhanceVars, pluginVars, tabs, keepAlive, scroller, sdk, ids, auth, hydration, routeLock, onceGuards>>
\* a caller (tab creation, keep-alive add or remove, updateKeepAlive) asks
\* for the component name of a record
Loader_request(r) ==
  /\ loader.installed
  /\ Len(loader.jobs) < MaxRequests
  /\ loader' = IF loader.resolver = "asyncGetComponentNameByRoute"
                 THEN asyncGetComponentNameByRoute(loader, r)
                 ELSE resolveComponentNameByRoute(loader, r)
  /\ LoaderFrame
\* the promise a loader returned resolves
Loader_resume(k) ==
  /\ loader.installed
  /\ k \in 1..Len(loader.jobs)
  /\ loader.jobs[k].pc = "await"
  /\ loader' = IF loader.resolver = "asyncGetComponentNameByRoute"
                 THEN asyncGetComponentNameByRoute_resume(loader, k)
                 ELSE resolveComponentNameByRoute_resume(loader, k)
  /\ LoaderFrame
InitLoader ==
  /\ InitHost("fresh")
  /\ hasIdentify = FALSE
  /\ EnhanceUnused
  /\ PluginUnused
  /\ TabsUnused
  /\ keepAlive = NoPlugin /\ scroller = NoPlugin /\ sdk = NoPlugin /\ ids = NoIds
  /\ auth = NoPlugin /\ hydration = NoPlugin /\ routeLock = NoPlugin /\ onceGuards = NoPlugin
  /\ \E resolver \in Resolvers, names \in [LazyRecords -> ComponentNames] :
       loader = NewLoader(resolver, names)
NextLoader ==
  \/ \E r \in LazyRecords : Loader_request(r)
  \/ \E k \in 1..MaxRequests : Loader_resume(k)
SpecLoader == InitLoader /\ [][NextLoader]_vars

\* C40: however many times and however concurrently the component name of a
\* route record is requested, the lazy loader of the record is invoked at
\* most once in total
C40_LoaderInvokedOnce ==
  loader.installed => \A r \in LazyRecords : loader.invoked[r] <= 1

====
